---- MODULE Spec2Model ----
(***************************************************************************)
(* GovInfo MCP server: the tools of src/app/tools/*.py as a state machine. *)
(* One tool invocation is in progress at a time.  An invocation is split   *)
(* at its single await of the HTTP client: the first step runs the handler *)
(* up to the request (or to the early raise/return), the second step runs  *)
(* it from the response (or the exception) to its return or re-raise.      *)
(*                                                                         *)
(* Python values: str is a TLA+ string, int an integer, dict a function    *)
(* from key strings to values, list a sequence, None the empty tuple and a *)
(* present optional value v the 1-tuple <<v>>.                             *)
(***************************************************************************)
EXTENDS Integers, Sequences, FiniteSets, TLC

VARIABLES API_KEY, pc, call, now, client, requests, response, log, outcome, listed,
          defaults, tasks

vars == <<API_KEY, pc, call, now, client, requests, response, log, outcome, listed,
          defaults, tasks>>

(***************************************************************************)
(* Bounds of the model.                                                    *)
(***************************************************************************)
MaxResults == 2     \* longest result list in an upstream search response
MaxBytes == 3       \* longest byte content of an upstream download
MaxListed == 2      \* how many results of list_statute_collections are kept
MaxTasks == 2       \* how many invocations run concurrently

(***************************************************************************)
(* Python helpers.                                                         *)
(***************************************************************************)
None == <<>>
Some(v) == <<v>>

\* bool(x) of an optional string: None and "" are falsy
Truthy(opt) == opt # None /\ opt[1] # ""

\* d.get(k, default)
Get(d, k, default) == IF k \in DOMAIN d THEN d[k] ELSE default

\* the dict d with d[k] = v assigned
Put(d, k, v) == [x \in DOMAIN d \cup {k} |-> IF x = k THEN v ELSE d[x]]

EmptyDict == [x \in {} |-> None]

UpperChars == "ABCDEFGHIJKLMNOPQRSTUVWXYZ"
LowerChars == "abcdefghijklmnopqrstuvwxyz"

CharAt(s, i) == SubSeq(s, i, i)

LowerChar(c) ==
    IF \E i \in 1..26 : CharAt(UpperChars, i) = c
    THEN CharAt(LowerChars, CHOOSE i \in 1..26 : CharAt(UpperChars, i) = c)
    ELSE c

UpperChar(c) ==
    IF \E i \in 1..26 : CharAt(LowerChars, i) = c
    THEN CharAt(UpperChars, CHOOSE i \in 1..26 : CharAt(LowerChars, i) = c)
    ELSE c

RECURSIVE lower(_)
lower(s) == IF Len(s) = 0 THEN ""
            ELSE LowerChar(CharAt(s, 1)) \o lower(SubSeq(s, 2, Len(s)))

RECURSIVE upper(_)
upper(s) == IF Len(s) = 0 THEN ""
            ELSE UpperChar(CharAt(s, 1)) \o upper(SubSeq(s, 2, Len(s)))

\* sep.join(parts)
RECURSIVE Join(_, _)
Join(sep, parts) ==
    IF Len(parts) = 0 THEN ""
    ELSE IF Len(parts) = 1 THEN parts[1]
    ELSE parts[1] \o sep \o Join(sep, Tail(parts))

(***************************************************************************)
(* datetime: an instant is [days |-> days since 1970-01-01, secs |->       *)
(* second of the day], both in UTC.                                        *)
(***************************************************************************)
\* datetime - timedelta(days=n)
MinusDays(t, n) == [days |-> t.days - n, secs |-> t.secs]

\* the proleptic Gregorian date <<year, month, day>> of a day number
CivilFromDays(days) ==
    LET z == days + 719468
        era == z \div 146097
        doe == z - era * 146097
        yoe == (doe - doe \div 1460 + doe \div 36524 - doe \div 146096) \div 365
        doy == doe - (365 * yoe + yoe \div 4 - yoe \div 100)
        mp == (5 * doy + 2) \div 153
        d == doy - (153 * mp + 2) \div 5 + 1
        m == IF mp < 10 THEN mp + 3 ELSE mp - 9
        y == yoe + era * 400 + (IF m <= 2 THEN 1 ELSE 0)
    IN  <<y, m, d>>

\* "%02d" and "%04d"
Pad2(n) == IF n < 10 THEN "0" \o ToString(n) ELSE ToString(n)
Pad4(n) == IF n < 10 THEN "000" \o ToString(n)
           ELSE IF n < 100 THEN "00" \o ToString(n)
           ELSE IF n < 1000 THEN "0" \o ToString(n)
           ELSE ToString(n)

\* t.strftime("%Y-%m-%dT%H:%M:%SZ")
strftime(t) ==
    LET ymd == CivilFromDays(t.days)
        hh == t.secs \div 3600
        mm == (t.secs % 3600) \div 60
        ss == t.secs % 60
    IN  Pad4(ymd[1]) \o "-" \o Pad2(ymd[2]) \o "-" \o Pad2(ymd[3]) \o "T"
        \o Pad2(hh) \o ":" \o Pad2(mm) \o ":" \o Pad2(ss) \o "Z"

(***************************************************************************)
(* base64.b64encode(data).decode("utf-8"): data is a sequence of bytes     *)
(* 0..255, the result a string over the standard alphabet, padded with =.  *)
(***************************************************************************)
B64Alphabet ==
    "ABCDEFGHIJKLMNOPQRSTUVWXYZabcdefghijklmnopqrstuvwxyz0123456789+/"

B64Char(i) == CharAt(B64Alphabet, i + 1)

RECURSIVE b64encode(_)
b64encode(data) ==
    IF Len(data) = 0 THEN ""
    ELSE IF Len(data) = 1 THEN
        B64Char(data[1] \div 4) \o B64Char((data[1] % 4) * 16) \o "=="
    ELSE IF Len(data) = 2 THEN
        B64Char(data[1] \div 4)
        \o B64Char((data[1] % 4) * 16 + data[2] \div 16)
        \o B64Char((data[2] % 16) * 4) \o "="
    ELSE
        B64Char(data[1] \div 4)
        \o B64Char((data[1] % 4) * 16 + data[2] \div 16)
        \o B64Char((data[2] % 16) * 4 + data[3] \div 64)
        \o B64Char(data[3] % 64)
        \o b64encode(SubSeq(data, 4, Len(data)))

(***************************************************************************)
(* src/app/tools/statutes.py: the statute collections, in insertion order. *)
(***************************************************************************)
STATUTE_COLLECTIONS ==
    << <<"USCODE", "United States Code">>,
       <<"STATUTE", "Statutes at Large">>,
       <<"PLAW", "Public and Private Laws">>,
       <<"COMPS", "Statutes Compilations">> >>

\* the keys of STATUTE_COLLECTIONS, in order / as a set
StatuteCodes == [i \in 1..Len(STATUTE_COLLECTIONS) |-> STATUTE_COLLECTIONS[i][1]]
StatuteCodeSet == {StatuteCodes[i] : i \in 1..Len(StatuteCodes)}

\* descriptions.get(collection_code, "No description available.")
descriptions ==
    [USCODE |-> "The United States Code (USC) is the official codification of the general and permanent laws of the United States. It is organized into 54 titles covering broad subject areas.",
     STATUTE |-> "The Statutes at Large is the official record of laws enacted by Congress. It contains the text of public and private laws, joint resolutions, and concurrent resolutions.",
     PLAW |-> "Public and Private Laws are the individual laws enacted by Congress before they are codified into the United States Code. Public laws affect the general public, while private laws affect specific individuals or entities.",
     COMPS |-> "Statutes Compilations contain various compilations and collections of statutes, including subject-specific compilations and historical collections."]

\* mutant: the description is looked up by the lower-cased code
_get_collection_description_lower_key(collection_code) ==
    Get(descriptions, lower(collection_code), "No description available.")

_get_collection_description(collection_code) ==
    Get(descriptions, collection_code, "No description available.")

(***************************************************************************)
(* Logging, exceptions, HTTP requests and responses.                       *)
(***************************************************************************)
\* `if ctx: await ctx.info(msg) else: logger.info(msg)` and its error twin
Emit(ctx, level, msg) ==
    << [level |-> level, sink |-> IF ctx THEN "ctx" ELSE "logger", msg |-> msg] >>

\* `log = ctx.info if ctx else logger.info; log(msg)`: with a context the
\* coroutine ctx.info(msg) is created and never awaited, so nothing is sent
EmitUnawaited(ctx, level, msg) ==
    IF ctx THEN <<>> ELSE Emit(ctx, level, msg)

Exc(type, msg, resp) == [type |-> type, msg |-> msg, response |-> resp]

Raise(e) == [kind |-> "raise", exc |-> e, value |-> None]
Return(v) == [kind |-> "return", exc |-> None, value |-> Some(v)]

MissingKeyMsg == "GOVINFO_API_KEY not found in environment variables"

ApiBase == "https://api.govinfo.gov"

\* client.get(url, params=, headers=, timeout=) / client.post(url, json=, ...)
HttpGet(url, params, headers, timeout) ==
    [method |-> "GET", url |-> url, params |-> params, json |-> None,
     headers |-> headers, timeout |-> timeout]
HttpPost(url, json, headers, timeout) ==
    [method |-> "POST", url |-> url, params |-> None, json |-> Some(json),
     headers |-> headers, timeout |-> timeout]

KeyHeader == [x \in {"X-Api-Key"} |-> API_KEY[1]]
JsonHeaders == [x \in {"X-Api-Key", "Content-Type"} |->
                    IF x = "X-Api-Key" THEN API_KEY[1] ELSE "application/json"]

\* response.raise_for_status() raises unless the status is 2xx
IsSuccess(status) == status \in 200..299

\* str(e) of the HTTPStatusError raised by raise_for_status()
HTTPStatusErrorMsg(status, url) ==
    (IF status \in 400..499 THEN "Client error '" ELSE "Server error '")
    \o ToString(status) \o "' for url '" \o url \o "'"

HTTPStatusError(resp, url) ==
    Exc("HTTPStatusError", HTTPStatusErrorMsg(resp.status_code, url),
        Some([status_code |-> resp.status_code, text |-> resp.text]))

\* the result of running a handler up to its HTTP request: the log lines
\* written, and either an early exit (raise or return) or the request
Exit(lines, out) == [log |-> lines, exit |-> Some(out), request |-> None]
Send(lines, req) == [log |-> lines, exit |-> None, request |-> Some(req)]

\* the result of running a handler from the response to its end
Done(lines, out) == [log |-> lines, outcome |-> out]

\* the `except httpx.HTTPStatusError` / `except Exception` clauses shared by
\* the tools of collections.py, packages.py, published.py, related.py and
\* search.py: log "HTTP error: {e}" or "<what> error: {e}", then `raise e`
ExceptClauses(ctx, what, e) ==
    IF e.type = "HTTPStatusError"
    THEN Done(Emit(ctx, "error", "HTTP error: " \o e.msg), Raise(e))
    ELSE Done(Emit(ctx, "error", what \o " error: " \o e.msg), Raise(e))

\* the same clauses in statutes.py: the HTTP error line carries the status
\* and the body of the response, and the log call is not awaited
StatuteExceptClauses(ctx, what, e) ==
    IF e.type = "HTTPStatusError"
    THEN Done(EmitUnawaited(ctx, "error",
                  "HTTP error: " \o ToString(e.response[1].status_code)
                  \o " - " \o e.response[1].text), Raise(e))
    ELSE Done(EmitUnawaited(ctx, "error", what \o " error: " \o e.msg), Raise(e))

\* the exception the `try` block sees for an upstream answer, or None:
\* a transport failure, a non-2xx status, or a 2xx body that is not JSON
JsonFailure(resp, url) ==
    IF resp.kind = "exception" THEN Some(resp.exc)
    ELSE IF ~IsSuccess(resp.status_code) THEN Some(HTTPStatusError(resp, url))
    ELSE IF resp.json = None
         THEN Some(Exc("JSONDecodeError", "Expecting value: line 1 column 1 (char 0)", None))
    ELSE None

\* len(data.get(key, []))
LenOf(data, key) == Len(Get(data, key, <<>>))

(***************************************************************************)
(* src/app/tools/collections.py                                            *)
(***************************************************************************)
get_collections_begin(a) ==
    LET l0 == Emit(a.ctx, "info", "Fetching GovInfo collections")
    IN  IF ~Truthy(API_KEY)
        THEN Exit(l0 \o Emit(a.ctx, "error", MissingKeyMsg),
                  Raise(Exc("ValueError", MissingKeyMsg, None)))
        ELSE Send(l0, HttpGet(ApiBase \o "/collections",
                      Some([pageSize |-> a.page_size, offsetMark |-> a.offset_mark]),
                      KeyHeader, 30))

get_collections_end(a, req, resp) ==
    LET f == JsonFailure(resp, req.url)
    IN  IF f # None THEN ExceptClauses(a.ctx, "Collections fetch", f[1])
        ELSE Done(Emit(a.ctx, "info", "Found "
                       \o ToString(LenOf(resp.json[1], "collections")) \o " collections"),
                  Return(resp.json[1]))

(***************************************************************************)
(* src/app/tools/packages.py                                               *)
(***************************************************************************)
\* mutant: the default lower bound is cut to midnight
last_modified_start_midnight(a, t) ==
    IF a.start_date = ""
    THEN SubSeq(strftime(MinusDays(t, 365)), 1, 10) \o "T00:00:00Z"
    ELSE a.start_date \o "T00:00:00Z"

\* the lower bound of get_packages_by_collection at instant t
last_modified_start(a, t) ==
    IF a.start_date = ""
    THEN strftime(MinusDays(t, 365))
    ELSE a.start_date \o "T00:00:00Z"

\* mutant: the optional filters are sent whether or not they are given
get_packages_by_collection_params_unconditional(a) ==
    [pageSize |-> a.page_size, offsetMark |-> a.offset_mark,
     congress |-> IF a.congress # None THEN a.congress[1] ELSE "",
     docClass |-> a.doc_class]

get_packages_by_collection_params(a) ==
    LET p0 == [pageSize |-> a.page_size, offsetMark |-> a.offset_mark]
        p1 == IF a.congress # None THEN Put(p0, "congress", a.congress[1]) ELSE p0
    IN  IF a.doc_class # "" THEN Put(p1, "docClass", a.doc_class) ELSE p1

\* mutant: the single date endpoint is used whether or not end_date is given
get_packages_by_collection_url_start_only(a, t) ==
    ApiBase \o "/collections/" \o a.collection \o "/" \o last_modified_start(a, t)

get_packages_by_collection_url(a, t) ==
    IF a.end_date # ""
    THEN ApiBase \o "/collections/" \o a.collection \o "/"
         \o last_modified_start(a, t) \o "/" \o a.end_date \o "T23:59:59Z"
    ELSE ApiBase \o "/collections/" \o a.collection \o "/"
         \o last_modified_start(a, t)

get_packages_by_collection_begin(a, t) ==
    LET l0 == Emit(a.ctx, "info", "Fetching packages from collection: " \o a.collection)
    IN  IF ~Truthy(API_KEY)
        THEN Exit(l0 \o Emit(a.ctx, "error", MissingKeyMsg),
                  Raise(Exc("ValueError", MissingKeyMsg, None)))
        ELSE Send(l0, HttpGet(get_packages_by_collection_url(a, t),
                              Some(get_packages_by_collection_params(a)),
                              KeyHeader, 30))

get_packages_by_collection_end(a, req, resp) ==
    LET f == JsonFailure(resp, req.url)
    IN  IF f # None THEN ExceptClauses(a.ctx, "Packages fetch", f[1])
        ELSE Done(Emit(a.ctx, "info", "Found "
                       \o ToString(LenOf(resp.json[1], "packages")) \o " packages"),
                  Return(resp.json[1]))

get_package_summary_begin(a) ==
    LET l0 == Emit(a.ctx, "info", "Fetching summary for package: " \o a.package_id)
    IN  IF ~Truthy(API_KEY)
        THEN Exit(l0 \o Emit(a.ctx, "error", MissingKeyMsg),
                  Raise(Exc("ValueError", MissingKeyMsg, None)))
        ELSE Send(l0, HttpGet(ApiBase \o "/packages/" \o a.package_id \o "/summary",
                              None, KeyHeader, 30))

get_package_summary_end(a, req, resp) ==
    LET f == JsonFailure(resp, req.url)
    IN  IF f # None THEN ExceptClauses(a.ctx, "Package summary fetch", f[1])
        ELSE Done(Emit(a.ctx, "info", "Retrieved summary for package: " \o a.package_id),
                  Return(resp.json[1]))

content_endpoints == [html |-> "htm", xml |-> "xml", pdf |-> "pdf", text |-> "txt"]

\* content_endpoints.get(content_type.lower(), "htm")
content_endpoint(content_type) == Get(content_endpoints, lower(content_type), "htm")

get_package_content_begin(a) ==
    LET l0 == Emit(a.ctx, "info", "Fetching " \o a.content_type
                   \o " content for package: " \o a.package_id)
    IN  IF ~Truthy(API_KEY)
        THEN Exit(l0 \o Emit(a.ctx, "error", MissingKeyMsg),
                  Raise(Exc("ValueError", MissingKeyMsg, None)))
        ELSE Send(l0, HttpGet(ApiBase \o "/packages/" \o a.package_id \o "/"
                              \o content_endpoint(a.content_type),
                              None, KeyHeader, 60))

\* mutant: only whole 3-byte groups of the content are encoded
get_package_content_result_tail_lost(a, resp) ==
    IF lower(a.content_type) \in {"html", "xml", "text"}
    THEN resp.text
    ELSE [content_type |-> a.content_type,
          base64_content |->
              b64encode(SubSeq(resp.content, 1, 3 * (Len(resp.content) \div 3)))]

\* mutant: the returned mapping names the content type in lower case
get_package_content_result_type_lowered(a, resp) ==
    IF lower(a.content_type) \in {"html", "xml", "text"}
    THEN resp.text
    ELSE [content_type |-> lower(a.content_type),
          base64_content |-> b64encode(resp.content)]

\* the value get_package_content returns for a 2xx response
get_package_content_result(a, resp) ==
    IF lower(a.content_type) \in {"html", "xml", "text"}
    THEN resp.text
    ELSE [content_type |-> a.content_type,
          base64_content |-> b64encode(resp.content)]

\* mutant: status 400 is logged like any other status
get_package_content_http_error_msg_generic(a, e) == "HTTP error: " \o e.msg

\* the line get_package_content logs for an HTTPStatusError e
get_package_content_http_error_msg(a, e) ==
    IF e.response[1].status_code = 400
    THEN "Content type '" \o a.content_type \o "' is not available for package '"
         \o a.package_id \o "'. "
         \o "Use get_package_summary() to check available formats in the 'download' field. "
         \o "HTTP error: " \o e.msg
    ELSE "HTTP error: " \o e.msg

\* the exception get_package_content re-raises for an HTTPStatusError e
get_package_content_reraised(a, e) == e

get_package_content_end(a, req, resp) ==
    IF resp.kind = "exception"
    THEN Done(Emit(a.ctx, "error", "Package content fetch error: " \o resp.exc.msg),
              Raise(resp.exc))
    ELSE IF ~IsSuccess(resp.status_code)
    THEN LET e == HTTPStatusError(resp, req.url)
         IN  Done(Emit(a.ctx, "error", get_package_content_http_error_msg(a, e)),
                  Raise(get_package_content_reraised(a, e)))
    ELSE Done(Emit(a.ctx, "info", "Retrieved " \o a.content_type
                   \o " content for package: " \o a.package_id),
              Return(get_package_content_result(a, resp)))

(***************************************************************************)
(* src/app/tools/published.py                                              *)
(***************************************************************************)
get_published_packages_params(a) ==
    LET p0 == [pageSize |-> a.page_size, offsetMark |-> a.offset_mark]
        p1 == IF a.collection # "" THEN Put(p0, "collection", a.collection) ELSE p0
    IN  IF a.doc_class # "" THEN Put(p1, "docClass", a.doc_class) ELSE p1

get_published_packages_begin(a) ==
    LET l0 == Emit(a.ctx, "info", "Fetching packages published on: " \o a.date_issued)
    IN  IF ~Truthy(API_KEY)
        THEN Exit(l0 \o Emit(a.ctx, "error", MissingKeyMsg),
                  Raise(Exc("ValueError", MissingKeyMsg, None)))
        ELSE Send(l0, HttpGet(ApiBase \o "/published/" \o a.date_issued,
                              Some(get_published_packages_params(a)), KeyHeader, 30))

get_published_packages_end(a, req, resp) ==
    LET f == JsonFailure(resp, req.url)
    IN  IF f # None THEN ExceptClauses(a.ctx, "Published packages fetch", f[1])
        ELSE Done(Emit(a.ctx, "info", "Found "
                       \o ToString(LenOf(resp.json[1], "packages"))
                       \o " packages published on " \o a.date_issued),
                  Return(resp.json[1]))

\* mutant: the collection is sent only when given, as in get_published_packages
get_published_range_params_collection_optional(a) ==
    LET p0 == [pageSize |-> a.page_size, offsetMark |-> a.offset_mark]
        p1 == IF a.collection # "" THEN Put(p0, "collection", a.collection) ELSE p0
        p2 == IF a.doc_class # "" THEN Put(p1, "docClass", a.doc_class) ELSE p1
    IN  IF a.modified_since # "" THEN Put(p2, "modifiedSince", a.modified_since) ELSE p2

get_published_range_params(a) ==
    LET p0 == [pageSize |-> a.page_size, offsetMark |-> a.offset_mark,
               collection |-> a.collection]
        p1 == IF a.doc_class # "" THEN Put(p0, "docClass", a.doc_class) ELSE p0
    IN  IF a.modified_since # "" THEN Put(p1, "modifiedSince", a.modified_since) ELSE p1

get_published_range_begin(a) ==
    LET l0 == Emit(a.ctx, "info", "Fetching packages published between "
                   \o a.start_date \o " and " \o a.end_date)
    IN  IF ~Truthy(API_KEY)
        THEN Exit(l0 \o Emit(a.ctx, "error", MissingKeyMsg),
                  Raise(Exc("ValueError", MissingKeyMsg, None)))
        ELSE Send(l0, HttpGet(ApiBase \o "/published/" \o a.start_date \o "/" \o a.end_date,
                              Some(get_published_range_params(a)), KeyHeader, 30))

get_published_range_end(a, req, resp) ==
    LET f == JsonFailure(resp, req.url)
    IN  IF f # None THEN ExceptClauses(a.ctx, "Published range fetch", f[1])
        ELSE Done(Emit(a.ctx, "info", "Found "
                       \o ToString(LenOf(resp.json[1], "packages"))
                       \o " packages in date range"),
                  Return(resp.json[1]))

(***************************************************************************)
(* src/app/tools/related.py                                                *)
(***************************************************************************)
\* how get_related_packages leaves when the API key is missing
get_related_packages_missing_key == Return([error |-> MissingKeyMsg])

get_related_packages_begin(a) ==
    LET l0 == Emit(a.ctx, "info", "Fetching related packages for: " \o a.package_id)
    IN  IF ~Truthy(API_KEY)
        THEN Exit(l0 \o Emit(a.ctx, "error", MissingKeyMsg),
                  get_related_packages_missing_key)
        ELSE Send(l0, HttpGet(ApiBase \o "/related/" \o a.package_id,
                              None, KeyHeader, 30))

get_related_packages_end(a, req, resp) ==
    LET f == JsonFailure(resp, req.url)
    IN  IF f # None THEN ExceptClauses(a.ctx, "Related packages fetch", f[1])
        ELSE Done(Emit(a.ctx, "info", "Found "
                       \o ToString(LenOf(resp.json[1], "relatedPackages"))
                       \o " related packages"),
                  Return(resp.json[1]))

\* mutant: the granule is looked up under its package
get_granule_related_begin_under_package(a) ==
    LET l0 == Emit(a.ctx, "info", "Fetching related items for granule "
                   \o a.granule_id \o " in package " \o a.package_id)
    IN  IF ~Truthy(API_KEY)
        THEN Exit(l0 \o Emit(a.ctx, "error", MissingKeyMsg),
                  Raise(Exc("ValueError", MissingKeyMsg, None)))
        ELSE Send(l0, HttpGet(ApiBase \o "/packages/" \o a.package_id \o "/granules/"
                              \o a.granule_id \o "/related",
                              None, KeyHeader, 30))

get_granule_related_begin(a) ==
    LET l0 == Emit(a.ctx, "info", "Fetching related items for granule "
                   \o a.granule_id \o " in package " \o a.package_id)
    IN  IF ~Truthy(API_KEY)
        THEN Exit(l0 \o Emit(a.ctx, "error", MissingKeyMsg),
                  Raise(Exc("ValueError", MissingKeyMsg, None)))
        ELSE Send(l0, HttpGet(ApiBase \o "/related/" \o a.granule_id,
                              None, KeyHeader, 30))

get_granule_related_end(a, req, resp) ==
    LET f == JsonFailure(resp, req.url)
    IN  IF f # None THEN ExceptClauses(a.ctx, "Granule related fetch", f[1])
        ELSE Done(Emit(a.ctx, "info", "Retrieved related items for granule " \o a.granule_id),
                  Return(resp.json[1]))

(***************************************************************************)
(* src/app/tools/search.py                                                 *)
(***************************************************************************)
\* mutant: the title clause is prefixed first, so that it ends up innermost
search_packages_query_title_innermost(a) ==
    LET q0 == a.query
        q1 == IF a.title # "" THEN "title:\"" \o a.title \o "\" AND " \o q0 ELSE q0
        q2 == IF a.collection # "" THEN "collection:" \o a.collection \o " AND " \o q1 ELSE q1
        q3 == IF a.congress # None
              THEN "congress:" \o ToString(a.congress[1]) \o " AND " \o q2 ELSE q2
        q4 == IF a.doc_class # "" THEN "docClass:" \o a.doc_class \o " AND " \o q3 ELSE q3
        q5 == IF a.start_date # "" THEN "publishdate:>=" \o a.start_date \o " AND " \o q4 ELSE q4
    IN  IF a.end_date # "" THEN "publishdate:<=" \o a.end_date \o " AND " \o q5 ELSE q5

\* mutant: each clause is appended after the query instead of prefixed
search_packages_query_clauses_appended(a) ==
    LET q0 == a.query
        q1 == IF a.collection # "" THEN q0 \o " AND collection:" \o a.collection ELSE q0
        q2 == IF a.congress # None
              THEN q1 \o " AND congress:" \o ToString(a.congress[1]) ELSE q1
        q3 == IF a.doc_class # "" THEN q2 \o " AND docClass:" \o a.doc_class ELSE q2
        q4 == IF a.title # "" THEN q3 \o " AND title:\"" \o a.title \o "\"" ELSE q3
        q5 == IF a.start_date # "" THEN q4 \o " AND publishdate:>=" \o a.start_date ELSE q4
    IN  IF a.end_date # "" THEN q5 \o " AND publishdate:<=" \o a.end_date ELSE q5

search_packages_query(a) ==
    LET q0 == a.query
        q1 == IF a.collection # "" THEN "collection:" \o a.collection \o " AND " \o q0 ELSE q0
        q2 == IF a.congress # None
              THEN "congress:" \o ToString(a.congress[1]) \o " AND " \o q1 ELSE q1
        q3 == IF a.doc_class # "" THEN "docClass:" \o a.doc_class \o " AND " \o q2 ELSE q2
        q4 == IF a.title # "" THEN "title:\"" \o a.title \o "\" AND " \o q3 ELSE q3
        q5 == IF a.start_date # "" THEN "publishdate:>=" \o a.start_date \o " AND " \o q4 ELSE q4
    IN  IF a.end_date # "" THEN "publishdate:<=" \o a.end_date \o " AND " \o q5 ELSE q5

search_packages_body(a) ==
    [query |-> search_packages_query(a),
     pageSize |-> a.page_size,
     offsetMark |-> a.offset_mark,
     resultLevel |-> "default",
     sorts |-> << [field |-> "score", sortOrder |-> "DESC"] >>]

search_packages_begin(a) ==
    LET l0 == Emit(a.ctx, "info", "Searching packages with query: " \o a.query)
    IN  IF ~Truthy(API_KEY)
        THEN Exit(l0 \o Emit(a.ctx, "error", MissingKeyMsg),
                  Raise(Exc("ValueError", MissingKeyMsg, None)))
        ELSE Send(l0, HttpPost(ApiBase \o "/search", search_packages_body(a),
                               JsonHeaders, 30))

search_packages_end(a, req, resp) ==
    LET f == JsonFailure(resp, req.url)
    IN  IF f # None THEN ExceptClauses(a.ctx, "Search", f[1])
        ELSE Done(Emit(a.ctx, "info", "Found "
                       \o ToString(Get(resp.json[1], "count", 0))
                       \o " results for query: " \o a.query),
                  Return(resp.json[1]))

\* mutant: the collections filter is folded into the query
advanced_search_body_collections_folded(a) ==
    [query |-> IF Len(a.collections) > 0
               THEN "collection:(" \o Join(" OR ", a.collections) \o ") AND " \o a.query
               ELSE a.query,
     pageSize |-> ToString(a.page_size),
     offsetMark |-> a.offset_mark,
     sorts |-> << [field |-> IF a.sort_by = "relevance" THEN "score" ELSE a.sort_by,
                   sortOrder |-> upper(a.sort_order)] >>,
     resultLevel |-> "default"]

\* mutant: the caller's cursor is dropped, every request asks for the first page
advanced_search_body_first_page(a) ==
    [query |-> a.query,
     pageSize |-> ToString(a.page_size),
     offsetMark |-> "*",
     sorts |-> <<[field |-> IF a.sort_by = "relevance" THEN "score" ELSE a.sort_by,
                  sortOrder |-> upper(a.sort_order)]>>,
     resultLevel |-> "default"]

\* mutant: sort_order is sent as the caller wrote it
advanced_search_body_order_as_given(a) ==
    [query |-> a.query,
     pageSize |-> ToString(a.page_size),
     offsetMark |-> a.offset_mark,
     sorts |-> <<[field |-> IF a.sort_by = "relevance" THEN "score" ELSE a.sort_by,
                  sortOrder |-> a.sort_order]>>,
     resultLevel |-> "default"]

advanced_search_body(a) ==
    [query |-> a.query,
     pageSize |-> ToString(a.page_size),
     offsetMark |-> a.offset_mark,
     sorts |-> << [field |-> IF a.sort_by = "relevance" THEN "score" ELSE a.sort_by,
                   sortOrder |-> upper(a.sort_order)] >>,
     resultLevel |-> "default"]

advanced_search_begin(a) ==
    LET l0 == Emit(a.ctx, "info", "Performing advanced search with query: " \o a.query)
    IN  IF ~Truthy(API_KEY)
        THEN Exit(l0 \o Emit(a.ctx, "error", MissingKeyMsg),
                  Raise(Exc("ValueError", MissingKeyMsg, None)))
        ELSE Send(l0, HttpPost(ApiBase \o "/search", advanced_search_body(a),
                               JsonHeaders, 30))

advanced_search_end(a, req, resp) ==
    LET f == JsonFailure(resp, req.url)
    IN  IF f # None THEN ExceptClauses(a.ctx, "Advanced search", f[1])
        ELSE Done(Emit(a.ctx, "info", "Advanced search returned "
                       \o ToString(Get(resp.json[1], "count", 0)) \o " results"),
                  Return(resp.json[1]))

(***************************************************************************)
(* src/app/tools/statutes.py                                               *)
(***************************************************************************)
\* mutant: the collection is upper-cased before it is looked up
search_statutes_invalid_any_case(a) ==
    a.collection # "" /\ upper(a.collection) \notin StatuteCodeSet

\* `collection and collection not in STATUTE_COLLECTIONS`
search_statutes_invalid(a) ==
    a.collection # "" /\ a.collection \notin StatuteCodeSet

search_statutes_invalid_msg(a) ==
    "Invalid collection '" \o a.collection \o "'. Must be one of: "
    \o Join(", ", StatuteCodes)

\* mutant: the collection clauses joined by AND
collections_query_joined_by_and ==
    Join(" AND ", [i \in 1..Len(StatuteCodes) |-> "collection:" \o StatuteCodes[i]])

\* " OR ".join([f"collection:{code}" for code in STATUTE_COLLECTIONS])
collections_query ==
    Join(" OR ", [i \in 1..Len(StatuteCodes) |-> "collection:" \o StatuteCodes[i]])

\* mutant: the section clause is appended before the title clause
search_statutes_query_section_before_title(a) ==
    LET q0 == IF a.collection # ""
              THEN "collection:" \o a.collection \o " AND (" \o a.query \o ")"
              ELSE "(" \o collections_query \o ") AND (" \o a.query \o ")"
        q1 == IF a.congress # None
              THEN q0 \o " AND congress:" \o ToString(a.congress[1]) ELSE q0
        q2 == IF a.section # "" THEN q1 \o " AND section:" \o a.section ELSE q1
        q3 == IF a.title_number # "" THEN q2 \o " AND title:" \o a.title_number ELSE q2
        q4 == IF a.start_date # ""
              THEN q3 \o " AND publishdate:[" \o a.start_date \o " TO *]" ELSE q3
    IN  IF a.end_date # ""
        THEN q4 \o " AND publishdate:[* TO " \o a.end_date \o "]" ELSE q4

search_statutes_query(a) ==
    LET q0 == IF a.collection # ""
              THEN "collection:" \o a.collection \o " AND (" \o a.query \o ")"
              ELSE "(" \o collections_query \o ") AND (" \o a.query \o ")"
        q1 == IF a.congress # None
              THEN q0 \o " AND congress:" \o ToString(a.congress[1]) ELSE q0
        q2 == IF a.title_number # "" THEN q1 \o " AND title:" \o a.title_number ELSE q1
        q3 == IF a.section # "" THEN q2 \o " AND section:" \o a.section ELSE q2
        q4 == IF a.start_date # ""
              THEN q3 \o " AND publishdate:[" \o a.start_date \o " TO *]" ELSE q3
    IN  IF a.end_date # ""
        THEN q4 \o " AND publishdate:[* TO " \o a.end_date \o "]" ELSE q4

search_statutes_body(a) ==
    [query |-> search_statutes_query(a),
     pageSize |-> a.page_size,
     offsetMark |-> a.offset_mark,
     sorts |-> << [field |-> "score", sortOrder |-> "DESC"] >>]

\* mutant: the collection is validated before the key is checked
search_statutes_begin_validating_first(a) ==
    LET l0 == EmitUnawaited(a.ctx, "info", "Searching US statutes with query: " \o a.query)
    IN  IF search_statutes_invalid(a)
        THEN Exit(l0 \o EmitUnawaited(a.ctx, "error", search_statutes_invalid_msg(a)),
                  Raise(Exc("ValueError", search_statutes_invalid_msg(a), None)))
        ELSE IF ~Truthy(API_KEY)
        THEN Exit(l0 \o EmitUnawaited(a.ctx, "error", MissingKeyMsg),
                  Raise(Exc("ValueError", MissingKeyMsg, None)))
        ELSE Send(l0, HttpPost(ApiBase \o "/search", search_statutes_body(a),
                               JsonHeaders, 30))

search_statutes_begin(a) ==
    LET l0 == EmitUnawaited(a.ctx, "info", "Searching US statutes with query: " \o a.query)
    IN  IF ~Truthy(API_KEY)
        THEN Exit(l0 \o EmitUnawaited(a.ctx, "error", MissingKeyMsg),
                  Raise(Exc("ValueError", MissingKeyMsg, None)))
        ELSE IF search_statutes_invalid(a)
        THEN Exit(l0 \o EmitUnawaited(a.ctx, "error", search_statutes_invalid_msg(a)),
                  Raise(Exc("ValueError", search_statutes_invalid_msg(a), None)))
        ELSE Send(l0, HttpPost(ApiBase \o "/search", search_statutes_body(a),
                               JsonHeaders, 30))

\* result.get("collectionCode") in STATUTE_COLLECTIONS
is_statute_result(result) ==
    "collectionCode" \in DOMAIN result /\ result.collectionCode \in StatuteCodeSet

\* [result for result in results if result.get("collectionCode") in STATUTE_COLLECTIONS]
RECURSIVE statute_results(_)
statute_results(results) ==
    IF Len(results) = 0 THEN <<>>
    ELSE IF is_statute_result(Head(results))
    THEN <<Head(results)>> \o statute_results(Tail(results))
    ELSE statute_results(Tail(results))

\* mutant: the results are filtered and the upstream count is kept
search_statutes_filter_stale_count(a, data) ==
    IF a.collection = "" /\ "results" \in DOMAIN data
    THEN Put(data, "results", statute_results(data.results))
    ELSE data

\* mutant: the results are filtered also when a collection was given
search_statutes_filter_always(a, data) ==
    IF "results" \in DOMAIN data
    THEN LET kept == statute_results(data.results)
         IN  Put(Put(data, "results", kept), "count", Len(kept))
    ELSE data

\* the post-filter of search_statutes on the decoded response
search_statutes_filter(a, data) ==
    IF a.collection = "" /\ "results" \in DOMAIN data
    THEN LET kept == statute_results(data.results)
         IN  Put(Put(data, "results", kept), "count", Len(kept))
    ELSE data

search_statutes_end(a, req, resp) ==
    LET f == JsonFailure(resp, req.url)
    IN  IF f # None THEN StatuteExceptClauses(a.ctx, "Search", f[1])
        ELSE LET data == search_statutes_filter(a, resp.json[1])
             IN  Done(EmitUnawaited(a.ctx, "info", "Found "
                          \o ToString(Get(data, "count", 0))
                          \o " statute results for query: " \o a.query),
                      Return(data))

get_uscode_title_query(a) ==
    LET q0 == "collection:USCODE AND title:" \o a.title_number
        q1 == IF a.edition # "" THEN q0 \o " AND publishdate:" \o a.edition ELSE q0
        q2 == IF a.chapter # "" THEN q1 \o " AND chapter:" \o a.chapter ELSE q1
    IN  IF a.section # "" THEN q2 \o " AND section:" \o a.section ELSE q2

get_uscode_title_body(a) ==
    [query |-> get_uscode_title_query(a),
     pageSize |-> a.page_size,
     offsetMark |-> a.offset_mark,
     sorts |-> << [field |-> "title", sortOrder |-> "ASC"] >>]

get_uscode_title_begin(a) ==
    LET l0 == EmitUnawaited(a.ctx, "info", "Searching USC Title " \o a.title_number)
    IN  IF ~Truthy(API_KEY)
        THEN Exit(l0 \o EmitUnawaited(a.ctx, "error", "GOVINFO_API_KEY not set"),
                  Raise(Exc("ValueError", "GOVINFO_API_KEY not set", None)))
        ELSE Send(l0, HttpPost(ApiBase \o "/search", get_uscode_title_body(a),
                               JsonHeaders, 30))

get_uscode_title_end(a, req, resp) ==
    LET f == JsonFailure(resp, req.url)
    IN  IF f # None THEN StatuteExceptClauses(a.ctx, "USC title search", f[1])
        ELSE Done(EmitUnawaited(a.ctx, "info", "Found "
                      \o ToString(Get(resp.json[1], "count", 0))
                      \o " results for USC Title " \o a.title_number),
                  Return(resp.json[1]))

\* mutant: the else branch that rejects an unknown law_type is missing
get_public_laws_by_congress_invalid_ignored(a) == FALSE

\* `law_type` given and neither public nor private in any letter case
get_public_laws_by_congress_invalid(a) ==
    a.law_type # "" /\ lower(a.law_type) \notin {"public", "private"}

get_public_laws_by_congress_invalid_msg(a) ==
    "Invalid law_type '" \o a.law_type \o "'. Must be 'public' or 'private'"

\* mutant: the law type is matched against docClass alone
get_public_laws_by_congress_query_docclass_only(a) ==
    LET q0 == "collection:PLAW AND congress:" \o ToString(a.congress)
        q1 == IF a.law_type = "" THEN q0
              ELSE q0 \o " AND docClass:" \o lower(a.law_type)
        q2 == IF a.law_number # "" THEN q1 \o " AND " \o a.law_number ELSE q1
        q3 == IF a.start_date # ""
              THEN q2 \o " AND publishdate:[" \o a.start_date \o " TO *]" ELSE q2
    IN  IF a.end_date # ""
        THEN q3 \o " AND publishdate:[* TO " \o a.end_date \o "]" ELSE q3

\* mutant: the law number is sent as a field-qualified clause, after the
\* date bounds
get_public_laws_by_congress_query_number_qualified(a) ==
    LET q0 == "collection:PLAW AND congress:" \o ToString(a.congress)
        q1 == IF a.law_type = "" THEN q0
              ELSE IF lower(a.law_type) = "public"
              THEN q0 \o " AND (docClass:public OR title:public)"
              ELSE q0 \o " AND (docClass:private OR title:private)"
        q2 == IF a.start_date # ""
              THEN q1 \o " AND publishdate:[" \o a.start_date \o " TO *]" ELSE q1
        q3 == IF a.end_date # ""
              THEN q2 \o " AND publishdate:[* TO " \o a.end_date \o "]" ELSE q2
    IN  IF a.law_number # "" THEN q3 \o " AND lawnumber:" \o a.law_number ELSE q3

\* the query of get_public_laws_by_congress for a valid law_type
get_public_laws_by_congress_query(a) ==
    LET q0 == "collection:PLAW AND congress:" \o ToString(a.congress)
        q1 == IF a.law_type = "" THEN q0
              ELSE IF lower(a.law_type) = "public"
              THEN q0 \o " AND (docClass:public OR title:public)"
              ELSE q0 \o " AND (docClass:private OR title:private)"
        q2 == IF a.law_number # "" THEN q1 \o " AND " \o a.law_number ELSE q1
        q3 == IF a.start_date # ""
              THEN q2 \o " AND publishdate:[" \o a.start_date \o " TO *]" ELSE q2
    IN  IF a.end_date # ""
        THEN q3 \o " AND publishdate:[* TO " \o a.end_date \o "]" ELSE q3

get_public_laws_by_congress_body(a) ==
    [query |-> get_public_laws_by_congress_query(a),
     pageSize |-> a.page_size,
     offsetMark |-> a.offset_mark,
     sorts |-> << [field |-> "publishdate", sortOrder |-> "DESC"] >>]

get_public_laws_by_congress_begin(a) ==
    LET l0 == EmitUnawaited(a.ctx, "info", "Searching laws from "
                  \o ToString(a.congress) \o "th Congress")
    IN  IF ~Truthy(API_KEY)
        THEN Exit(l0 \o EmitUnawaited(a.ctx, "error", MissingKeyMsg),
                  Raise(Exc("ValueError", MissingKeyMsg, None)))
        ELSE IF get_public_laws_by_congress_invalid(a)
        THEN Exit(l0 \o EmitUnawaited(a.ctx, "error",
                            get_public_laws_by_congress_invalid_msg(a)),
                  Raise(Exc("ValueError", get_public_laws_by_congress_invalid_msg(a), None)))
        ELSE Send(l0, HttpPost(ApiBase \o "/search", get_public_laws_by_congress_body(a),
                               JsonHeaders, 30))

get_public_laws_by_congress_end(a, req, resp) ==
    LET f == JsonFailure(resp, req.url)
    IN  IF f # None THEN StatuteExceptClauses(a.ctx, "Congress laws search", f[1])
        ELSE Done(EmitUnawaited(a.ctx, "info", "Found "
                      \o ToString(Get(resp.json[1], "count", 0))
                      \o " laws from " \o ToString(a.congress) \o "th Congress"),
                  Return(resp.json[1]))

get_statutes_at_large_query(a) ==
    LET q0 == "collection:STATUTE AND " \o a.volume
        q1 == IF a.page # "" THEN q0 \o " AND " \o a.page ELSE q0
    IN  IF a.congress # None
        THEN q1 \o " AND congress:" \o ToString(a.congress[1]) ELSE q1

get_statutes_at_large_body(a) ==
    [query |-> get_statutes_at_large_query(a),
     pageSize |-> a.page_size,
     offsetMark |-> a.offset_mark,
     sorts |-> << [field |-> "title", sortOrder |-> "ASC"] >>]

get_statutes_at_large_begin(a) ==
    LET l0 == EmitUnawaited(a.ctx, "info", "Searching Statutes at Large Volume " \o a.volume)
    IN  IF ~Truthy(API_KEY)
        THEN Exit(l0 \o EmitUnawaited(a.ctx, "error", MissingKeyMsg),
                  Raise(Exc("ValueError", MissingKeyMsg, None)))
        ELSE Send(l0, HttpPost(ApiBase \o "/search", get_statutes_at_large_body(a),
                               JsonHeaders, 30))

get_statutes_at_large_end(a, req, resp) ==
    LET f == JsonFailure(resp, req.url)
    IN  IF f # None THEN StatuteExceptClauses(a.ctx, "Statutes at Large search", f[1])
        ELSE Done(EmitUnawaited(a.ctx, "info", "Found "
                      \o ToString(Get(resp.json[1], "count", 0))
                      \o " statutes in Volume " \o a.volume),
                  Return(resp.json[1]))

valid_types == <<"summary", "xml", "pdf", "text">>

\* mutant: the content type is lower-cased before it is looked up
get_statute_content_invalid_any_case(a) ==
    lower(a.content_type) \notin {valid_types[i] : i \in 1..Len(valid_types)}

get_statute_content_invalid(a) ==
    a.content_type \notin {valid_types[i] : i \in 1..Len(valid_types)}

get_statute_content_invalid_msg(a) ==
    "Invalid content_type '" \o a.content_type \o "'. Must be one of: "
    \o Join(", ", valid_types)

get_statute_content_url(a) ==
    IF a.granule_id # ""
    THEN ApiBase \o "/packages/" \o a.package_id \o "/granules/" \o a.granule_id \o "/summary"
    ELSE ApiBase \o "/packages/" \o a.package_id \o "/summary"

get_statute_content_begin(a) ==
    LET l0 == EmitUnawaited(a.ctx, "info", "Getting " \o a.content_type
                  \o " for package: " \o a.package_id)
    IN  IF ~Truthy(API_KEY)
        THEN Exit(l0 \o EmitUnawaited(a.ctx, "error", MissingKeyMsg),
                  Raise(Exc("ValueError", MissingKeyMsg, None)))
        ELSE IF get_statute_content_invalid(a)
        THEN Exit(l0 \o EmitUnawaited(a.ctx, "error", get_statute_content_invalid_msg(a)),
                  Raise(Exc("ValueError", get_statute_content_invalid_msg(a), None)))
        ELSE Send(l0, HttpGet(get_statute_content_url(a), None, KeyHeader, 30))

content_key_map == [xml |-> "xmlLink", pdf |-> "pdfLink", text |-> "txtLink"]

\* whether the summary carries the download link of the requested type
has_requested_link(a, data) ==
    /\ a.content_type # "summary"
    /\ "download" \in DOMAIN data
    /\ a.content_type \in DOMAIN content_key_map
    /\ content_key_map[a.content_type] \in DOMAIN data.download

\* mutant: the link is attached without the content type
get_statute_content_result_url_only(a, data) ==
    IF has_requested_link(a, data)
    THEN Put(data, "requested_content_url",
             data.download[content_key_map[a.content_type]])
    ELSE data

\* the summary get_statute_content returns for the decoded response
get_statute_content_result(a, data) ==
    IF has_requested_link(a, data)
    THEN Put(Put(data, "requested_content_url",
                 data.download[content_key_map[a.content_type]]),
             "content_type", a.content_type)
    ELSE data

get_statute_content_end(a, req, resp) ==
    LET f == JsonFailure(resp, req.url)
        data == resp.json[1]
    IN  IF f # None THEN StatuteExceptClauses(a.ctx, "Content retrieval", f[1])
        ELSE Done(IF a.content_type # "summary" /\ "download" \in DOMAIN data
                  THEN IF has_requested_link(a, data)
                       THEN EmitUnawaited(a.ctx, "info", "Found " \o a.content_type
                                \o " download link for " \o a.package_id)
                       ELSE EmitUnawaited(a.ctx, "info", "No " \o a.content_type
                                \o " content available for " \o a.package_id)
                  ELSE <<>>,
                  Return(get_statute_content_result(a, data)))

\* the value list_statute_collections returns
list_statute_collections_result ==
    [statute_collections |->
        [i \in 1..Len(STATUTE_COLLECTIONS) |->
            [code |-> STATUTE_COLLECTIONS[i][1],
             name |-> STATUTE_COLLECTIONS[i][2],
             description |-> _get_collection_description(STATUTE_COLLECTIONS[i][1])]],
     total_collections |-> Len(STATUTE_COLLECTIONS)]

list_statute_collections_begin(a) ==
    Exit(EmitUnawaited(a.ctx, "info", "Listing available statute collections"),
         Return(list_statute_collections_result))

(***************************************************************************)
(* src/app/server.py                                                       *)
(***************************************************************************)
\* the dictionary check_api_health returns for the answer to its probe
\* of /collections; a.elapsed_ms is what the clock measured
\* mutant: the probe does not call raise_for_status(), any response counts
check_api_health_result_any_response(a, req, resp) ==
    IF resp.kind = "exception"
    THEN [is_healthy |-> FALSE, status |-> "error: " \o resp.exc.type, error |-> resp.exc.msg]
    ELSE [is_healthy |-> TRUE, status |-> "connected", response_time_ms |-> a.elapsed_ms]

check_api_health_result(a, req, resp) ==
    IF resp.kind = "exception"
    THEN [is_healthy |-> FALSE, status |-> "error: " \o resp.exc.type,
          error |-> resp.exc.msg]
    ELSE IF ~IsSuccess(resp.status_code)
    THEN [is_healthy |-> FALSE, status |-> "error: HTTPStatusError",
          error |-> HTTPStatusErrorMsg(resp.status_code, req.url)]
    ELSE [is_healthy |-> TRUE, status |-> "connected",
          response_time_ms |-> a.elapsed_ms]

\* the dictionary status returns (the timestamp and the psutil metrics of
\* the process, which depend on nothing the tools do, are left out)
status_result(api_health) ==
    [status |-> IF api_health.is_healthy THEN "healthy" ELSE "degraded",
     service |-> "GovInfo MCP Server",
     version |-> "0.1.0",
     api |-> api_health]

\* status up to the request of check_api_health, which reads the key from
\* the environment and returns at once when it is missing
status_begin(a) ==
    LET l0 == Emit(FALSE, "info", "Status check requested")
    IN  IF ~Truthy(API_KEY)
        THEN Exit(l0, Return(status_result([is_healthy |-> FALSE,
                                            status |-> "no_api_key"])))
        ELSE Send(l0, HttpGet(ApiBase \o "/collections", None, KeyHeader, 5))

status_end(a, req, resp) ==
    Done(<<>>, Return(status_result(check_api_health_result(a, req, resp))))

(***************************************************************************)
(* The inputs: the parameters callers pass and the answers of the          *)
(* upstream API.                                                           *)
(***************************************************************************)
\* os.getenv("GOVINFO_API_KEY") at import: unset, set to "", or set
ApiKeys == {None, Some(""), Some("DEMO_KEY")}

Pages == {[page_size |-> 50, offset_mark |-> "*"],
          [page_size |-> 10, offset_mark |-> "AoJwcGFnZTI="]}

OptCongress == {None, Some(117)}
OptDate(d) == {"", d}

\* instants the clock may show: 2026-11-02 11:50:07, 2025-02-28 00:00:00
\* (365 days after a leap day) and 2024-12-31 23:59:59 (in a leap year)
Nows == {[days |-> 20759, secs |-> 42607],
         [days |-> 20147, secs |-> 0],
         [days |-> 20088, secs |-> 86399]}

GetCollectionsArgs ==
    {[page_size |-> p.page_size, offset_mark |-> p.offset_mark, ctx |-> c] :
        p \in Pages, c \in BOOLEAN}

GetPackagesByCollectionArgs ==
    {[collection |-> "BILLS", congress |-> g, doc_class |-> d, start_date |-> s,
      end_date |-> e, page_size |-> p.page_size, offset_mark |-> p.offset_mark,
      ctx |-> c] :
        g \in OptCongress, d \in {"", "hr"}, s \in OptDate("2024-01-15"),
        e \in OptDate("2024-06-30"), p \in Pages, c \in BOOLEAN}

PackageIds == {"BILLS-116hr1-ih", "PLAW-117publ58"}

GetPackageSummaryArgs ==
    {[package_id |-> i, ctx |-> c] : i \in PackageIds, c \in BOOLEAN}

GetPackageContentArgs ==
    {[package_id |-> i, content_type |-> t, ctx |-> c] :
        i \in PackageIds,
        t \in {"html", "xml", "pdf", "text", "PDF", "Text", "docx"},
        c \in BOOLEAN}

GetPublishedPackagesArgs ==
    {[date_issued |-> "2024-01-15", collection |-> k, doc_class |-> d,
      page_size |-> p.page_size, offset_mark |-> p.offset_mark, ctx |-> c] :
        k \in {"", "BILLS"}, d \in {"", "hr"}, p \in Pages, c \in BOOLEAN}

GetPublishedRangeArgs ==
    {[start_date |-> "2024-01-15", end_date |-> "2024-06-30", collection |-> k,
      doc_class |-> d, modified_since |-> m,
      page_size |-> p.page_size, offset_mark |-> p.offset_mark, ctx |-> c] :
        k \in {"", "BILLS"}, d \in {"", "hr"}, m \in OptDate("2024-02-01"),
        p \in Pages, c \in BOOLEAN}

GetRelatedPackagesArgs ==
    {[package_id |-> i, ctx |-> c] : i \in PackageIds, c \in BOOLEAN}

GetGranuleRelatedArgs ==
    {[package_id |-> i, granule_id |-> g, ctx |-> c] :
        i \in PackageIds, g \in {"CFR-2023-title12-vol1-sec1-1", "g2"}, c \in BOOLEAN}

SearchPackagesArgs ==
    {[query |-> "climate", collection |-> k, congress |-> g, doc_class |-> d,
      title |-> t, start_date |-> s, end_date |-> e,
      page_size |-> p.page_size, offset_mark |-> p.offset_mark, ctx |-> c] :
        k \in {"", "BILLS"}, g \in OptCongress, d \in {"", "hr"},
        t \in {"", "Clean Air"}, s \in OptDate("2024-01-15"),
        e \in OptDate("2024-06-30"), p \in Pages, c \in BOOLEAN}

AdvancedSearchArgs ==
    {[query |-> "collection:BILLS AND climate", collections |-> k, congress |-> g,
      doc_class |-> <<>>, committees |-> <<>>,
      date_issued_start |-> s, date_issued_end |-> "",
      last_modified_start |-> "", last_modified_end |-> "",
      package_count |-> n, granule_count |-> None,
      sort_by |-> b, sort_order |-> o,
      page_size |-> p.page_size, offset_mark |-> p.offset_mark, ctx |-> c] :
        k \in {<<>>, <<"PLAW">>}, g \in {<<>>, <<117>>}, s \in OptDate("2024-01-15"),
        n \in {None, Some(3)}, b \in {"relevance", "dateIssued"},
        o \in {"desc", "asc", "Desc"}, p \in Pages, c \in BOOLEAN}

SearchStatutesArgs ==
    {[query |-> q, collection |-> k, congress |-> g, title_number |-> t,
      section |-> x, start_date |-> s, end_date |-> e,
      page_size |-> p.page_size, offset_mark |-> p.offset_mark, ctx |-> c] :
        q \in {"civil rights", "tax"},
        k \in {"", "USCODE", "INVALID", "uscode"}, g \in OptCongress,
        t \in {"", "42"}, x \in {"", "1983"}, s \in OptDate("2024-01-15"),
        e \in OptDate("2024-06-30"), p \in Pages, c \in BOOLEAN}

GetUscodeTitleArgs ==
    {[title_number |-> t, edition |-> d, chapter |-> h, section |-> x,
      page_size |-> p.page_size, offset_mark |-> p.offset_mark, ctx |-> c] :
        t \in {"42", ""}, d \in {"", "2022"}, h \in {"", "21"}, x \in {"", "1983"},
        p \in Pages, c \in BOOLEAN}

GetPublicLawsByCongressArgs ==
    {[congress |-> g, law_type |-> t, law_number |-> n, start_date |-> s,
      end_date |-> e, page_size |-> p.page_size, offset_mark |-> p.offset_mark,
      ctx |-> c] :
        g \in {117, 99}, t \in {"", "public", "private", "Public", "bogus"},
        n \in {"", "58"}, s \in OptDate("2024-01-15"), e \in OptDate("2024-06-30"),
        p \in Pages, c \in BOOLEAN}

GetStatutesAtLargeArgs ==
    {[volume |-> "135", page |-> g, congress |-> n,
      page_size |-> p.page_size, offset_mark |-> p.offset_mark, ctx |-> c] :
        g \in {"", "429"}, n \in OptCongress, p \in Pages, c \in BOOLEAN}

GetStatuteContentArgs ==
    {[package_id |-> "PLAW-117publ58", content_type |-> t, granule_id |-> g, ctx |-> c] :
        t \in {"summary", "xml", "pdf", "text", "html", "PDF"},
        g \in {"", "g2"}, c \in BOOLEAN}

ListStatuteCollectionsArgs == {[ctx |-> c] : c \in BOOLEAN}

\* status takes no parameters; elapsed_ms is the time its probe will take
StatusArgs == {[elapsed_ms |-> e] : e \in {0, 137}}

\* upstream answers that are not a 2xx response
ErrorStatuses == {400, 500}

Exceptions == {Exc("ConnectTimeout", "timed out", None)}

OkResponse(json, content, text) ==
    [kind |-> "response", status_code |-> 200, json |-> json,
     content |-> content, text |-> text, exc |-> None]

StatusResponse(status) ==
    [kind |-> "response", status_code |-> status, json |-> None,
     content |-> <<>>, text |-> "upstream error body", exc |-> None]

FailedRequest(e) ==
    [kind |-> "exception", status_code |-> 0, json |-> None,
     content |-> <<>>, text |-> "", exc |-> e]

\* entries of an upstream search result list: two statute documents, a
\* document of another collection and one without a collection code
ResultEntries ==
    {[packageId |-> "USCODE-2022-title42", collectionCode |-> "USCODE"],
     [packageId |-> "PLAW-117publ58", collectionCode |-> "PLAW"],
     [packageId |-> "BILLS-117hr1-ih", collectionCode |-> "BILLS"],
     [packageId |-> "GOVPUB-1"]}

ResultLists == UNION {[1..n -> ResultEntries] : n \in 0..MaxResults}

\* decoded bodies of /search: with a result list (count is the upstream
\* total of matches), and without one
SearchBodies ==
    {[results |-> r, count |-> 7, offsetMark |-> "AoJwcGFnZTM="] : r \in ResultLists}
    \cup {[count |-> 7, offsetMark |-> "AoJwcGFnZTM="], [message |-> "No results"]}

\* decoded bodies of /search for the tools that return them as they are
PlainSearchBodies ==
    {[results |-> <<[packageId |-> "PLAW-117publ58", collectionCode |-> "PLAW"],
                    [packageId |-> "BILLS-117hr1-ih", collectionCode |-> "BILLS"]>>,
      count |-> 7, offsetMark |-> "AoJwcGFnZTM="],
     [message |-> "No results"]}

Links == [xmlLink |-> "https://www.govinfo.gov/content/pkg/PLAW-117publ58/xml",
          pdfLink |-> "https://www.govinfo.gov/content/pkg/PLAW-117publ58/pdf",
          txtLink |-> "https://www.govinfo.gov/content/pkg/PLAW-117publ58/htm"]

\* decoded bodies of a package or granule summary
SummaryBodies ==
    {[packageId |-> "PLAW-117publ58", download |-> [k \in ks |-> Links[k]]] :
        ks \in SUBSET DOMAIN Links}
    \cup {[packageId |-> "PLAW-117publ58"]}

\* decoded bodies of the listing endpoints
ListBodies(key) ==
    {[x \in {key, "count", "nextPage"} |->
        IF x = key THEN <<[packageId |-> "BILLS-116hr1-ih"], [packageId |-> "PLAW-117publ58"]>>
        ELSE IF x = "count" THEN 2
        ELSE "https://api.govinfo.gov/next?offsetMark=AoJwcGFnZTM%3D"],
     [message |-> "No results"]}

Bytes == {0, 77, 255}
ByteStrings == UNION {[1..n -> Bytes] : n \in 0..MaxBytes}
Texts == {"", "<html>An Act</html>"}

Bodies(tool) ==
    CASE tool = "get_collections" -> ListBodies("collections")
      [] tool \in {"get_packages_by_collection", "get_published_packages",
                   "get_published_range"} -> ListBodies("packages")
      [] tool \in {"get_related_packages", "get_granule_related"} ->
             ListBodies("relatedPackages")
      [] tool = "status" -> ListBodies("collections")
      [] tool \in {"get_package_summary", "get_statute_content"} -> SummaryBodies
      [] tool = "search_statutes" -> SearchBodies
      [] OTHER -> PlainSearchBodies

\* the 2xx answers the upstream may give to a request of the tool
OkResponses(tool) ==
    IF tool = "get_package_content"
    THEN {OkResponse(None, b, t) : b \in ByteStrings, t \in Texts}
    ELSE {OkResponse(Some(d), <<>>, "") : d \in Bodies(tool)}
         \cup {OkResponse(None, <<>>, "<html>Service Unavailable</html>")}

\* the default values of the list parameters of advanced_search: objects
\* created once, when the function is defined, and shared by every
\* invocation that omits the parameter
AdvancedSearchDefaults ==
    [collections |-> <<>>, congress |-> <<>>, doc_class |-> <<>>, committees |-> <<>>]

\* a concurrent invocation that has not started
IdleTask == [pc |-> "idle", call |-> None, args |-> None, request |-> None,
             response |-> None, outcome |-> None]

(***************************************************************************)
(* The state machine.  API_KEY is the module-level key read at import.     *)
(* pc is "idle" between invocations, "awaiting" while the handler awaits *)
(* the HTTP client and "done" when it has returned or raised; call is the  *)
(* tool and arguments of the invocation, now the clock it read, client the *)
(* state of its `async with httpx.AsyncClient()` scope, requests the HTTP  *)
(* requests it issued, response the upstream answer it received, log the   *)
(* lines it logged and outcome how it ended.  listed holds the values the  *)
(* latest consecutive invocations of list_statute_collections returned.    *)
(***************************************************************************)
Init ==
    /\ API_KEY \in ApiKeys
    /\ pc = "idle"
    /\ call = None
    /\ now = None
    /\ client = "none"
    /\ requests = <<>>
    /\ response = None
    /\ log = <<>>
    /\ outcome = None
    /\ listed = <<>>
    /\ defaults = AdvancedSearchDefaults
    /\ tasks = [i \in 1..MaxTasks |-> IdleTask]

\* a caller invokes the tool with arguments a; b is the handler run up to
\* its HTTP request
Start(tool, a, b) ==
    /\ pc = "idle"
    /\ call' = Some([tool |-> tool, args |-> a])
    /\ log' = b.log
    /\ IF b.exit # None
       THEN /\ pc' = "done"
            /\ client' = "none"
            /\ requests' = <<>>
            /\ outcome' = b.exit
       ELSE /\ pc' = "awaiting"
            /\ client' = "open"
            /\ requests' = <<b.request[1]>>
            /\ outcome' = None
    /\ response' = None
    /\ listed' = IF tool = "list_statute_collections"
                 THEN LET l == Append(listed, b.exit[1].value[1])
                      IN  IF Len(l) > MaxListed THEN Tail(l) ELSE l
                 ELSE <<>>
    /\ UNCHANGED <<API_KEY, defaults, tasks>>

get_collections ==
    /\ \E a \in GetCollectionsArgs : Start("get_collections", a, get_collections_begin(a))
    /\ UNCHANGED now

get_packages_by_collection ==
    /\ \E a \in GetPackagesByCollectionArgs, t \in Nows :
          /\ Start("get_packages_by_collection", a, get_packages_by_collection_begin(a, t))
          /\ now' = Some(t)

get_package_summary ==
    /\ \E a \in GetPackageSummaryArgs :
          Start("get_package_summary", a, get_package_summary_begin(a))
    /\ UNCHANGED now

get_package_content ==
    /\ \E a \in GetPackageContentArgs :
          Start("get_package_content", a, get_package_content_begin(a))
    /\ UNCHANGED now

get_published_packages ==
    /\ \E a \in GetPublishedPackagesArgs :
          Start("get_published_packages", a, get_published_packages_begin(a))
    /\ UNCHANGED now

get_published_range ==
    /\ \E a \in GetPublishedRangeArgs :
          Start("get_published_range", a, get_published_range_begin(a))
    /\ UNCHANGED now

get_related_packages ==
    /\ \E a \in GetRelatedPackagesArgs :
          Start("get_related_packages", a, get_related_packages_begin(a))
    /\ UNCHANGED now

get_granule_related ==
    /\ \E a \in GetGranuleRelatedArgs :
          Start("get_granule_related", a, get_granule_related_begin(a))
    /\ UNCHANGED now

search_packages ==
    /\ \E a \in SearchPackagesArgs :
          Start("search_packages", a, search_packages_begin(a))
    /\ UNCHANGED now

advanced_search ==
    /\ \E a \in AdvancedSearchArgs :
          Start("advanced_search", a, advanced_search_begin(a))
    /\ UNCHANGED now

search_statutes ==
    /\ \E a \in SearchStatutesArgs :
          Start("search_statutes", a, search_statutes_begin(a))
    /\ UNCHANGED now

get_uscode_title ==
    /\ \E a \in GetUscodeTitleArgs :
          Start("get_uscode_title", a, get_uscode_title_begin(a))
    /\ UNCHANGED now

get_public_laws_by_congress ==
    /\ \E a \in GetPublicLawsByCongressArgs :
          Start("get_public_laws_by_congress", a, get_public_laws_by_congress_begin(a))
    /\ UNCHANGED now

get_statutes_at_large ==
    /\ \E a \in GetStatutesAtLargeArgs :
          Start("get_statutes_at_large", a, get_statutes_at_large_begin(a))
    /\ UNCHANGED now

get_statute_content ==
    /\ \E a \in GetStatuteContentArgs :
          Start("get_statute_content", a, get_statute_content_begin(a))
    /\ UNCHANGED now

list_statute_collections ==
    /\ \E a \in ListStatuteCollectionsArgs :
          Start("list_statute_collections", a, list_statute_collections_begin(a))
    /\ UNCHANGED now

status ==
    /\ \E a \in StatusArgs : Start("status", a, status_begin(a))
    /\ UNCHANGED now

\* the handler of the awaiting invocation, run from the upstream answer
\* resp to its return or re-raise
End(tool, a, req, resp) ==
    CASE tool = "get_collections" -> get_collections_end(a, req, resp)
      [] tool = "get_packages_by_collection" -> get_packages_by_collection_end(a, req, resp)
      [] tool = "get_package_summary" -> get_package_summary_end(a, req, resp)
      [] tool = "get_package_content" -> get_package_content_end(a, req, resp)
      [] tool = "get_published_packages" -> get_published_packages_end(a, req, resp)
      [] tool = "get_published_range" -> get_published_range_end(a, req, resp)
      [] tool = "get_related_packages" -> get_related_packages_end(a, req, resp)
      [] tool = "get_granule_related" -> get_granule_related_end(a, req, resp)
      [] tool = "search_packages" -> search_packages_end(a, req, resp)
      [] tool = "advanced_search" -> advanced_search_end(a, req, resp)
      [] tool = "search_statutes" -> search_statutes_end(a, req, resp)
      [] tool = "get_uscode_title" -> get_uscode_title_end(a, req, resp)
      [] tool = "get_public_laws_by_congress" -> get_public_laws_by_congress_end(a, req, resp)
      [] tool = "get_statutes_at_large" -> get_statutes_at_large_end(a, req, resp)
      [] tool = "get_statute_content" -> get_statute_content_end(a, req, resp)
      [] tool = "status" -> status_end(a, req, resp)

\* mutant: the client is created without `async with` and is never closed
Complete_without_closing(resp) ==
    /\ pc = "awaiting"
    /\ LET d == End(call[1].tool, call[1].args, requests[1], resp)
       IN  /\ log' = log \o d.log
           /\ outcome' = Some(d.outcome)
    /\ response' = Some(resp)
    /\ pc' = "done"
    /\ UNCHANGED <<API_KEY, call, now, requests, listed, client, defaults, tasks>>

\* the awaited request completes with resp; leaving the `async with` block,
\* normally or by an exception, closes the client
Complete(resp) ==
    /\ pc = "awaiting"
    /\ LET d == End(call[1].tool, call[1].args, requests[1], resp)
       IN  /\ log' = log \o d.log
           /\ outcome' = Some(d.outcome)
    /\ response' = Some(resp)
    /\ client' = "closed"
    /\ pc' = "done"
    /\ UNCHANGED <<API_KEY, call, now, requests, listed, defaults, tasks>>

\* the upstream answers with a 2xx status
ReceiveOk ==
    /\ pc = "awaiting"
    /\ \E resp \in OkResponses(call[1].tool) : Complete(resp)

\* the upstream answers with a non-2xx status
ReceiveErrorStatus ==
    /\ pc = "awaiting"
    /\ \E st \in ErrorStatuses : Complete(StatusResponse(st))

\* the request fails in transport (connection error, timeout)
RequestFails ==
    /\ pc = "awaiting"
    /\ \E e \in Exceptions : Complete(FailedRequest(e))

\* the caller takes the return value or the exception; the invocation is over
Deliver ==
    /\ pc = "done"
    /\ pc' = "idle"
    /\ call' = None
    /\ now' = None
    /\ client' = "none"
    /\ requests' = <<>>
    /\ response' = None
    /\ log' = <<>>
    /\ outcome' = None
    /\ UNCHANGED <<API_KEY, listed, defaults, tasks>>

Next ==
    \/ get_collections
    \/ get_packages_by_collection
    \/ get_package_summary
    \/ get_package_content
    \/ get_published_packages
    \/ get_published_range
    \/ get_related_packages
    \/ get_granule_related
    \/ search_packages
    \/ advanced_search
    \/ search_statutes
    \/ get_uscode_title
    \/ get_public_laws_by_congress
    \/ get_statutes_at_large
    \/ get_statute_content
    \/ list_statute_collections
    \/ status
    \/ ReceiveOk
    \/ ReceiveErrorStatus
    \/ RequestFails
    \/ Deliver

Spec == Init /\ [][Next]_vars

(***************************************************************************)
(* Concurrent invocations: the event loop runs up to MaxTasks handlers,    *)
(* switching between them at their awaits.  tasks[i] is the i-th handler:  *)
(* the call as the caller wrote it (with the names of the parameters it    *)
(* omitted), the arguments the handler was bound to, its request, the      *)
(* answer it received and how it ended.  defaults holds the default        *)
(* argument objects the handlers share.                                    *)
(***************************************************************************)
\* the calls made concurrently; omitted names the parameters left to their
\* default objects
ConcCalls ==
    {[tool |-> "advanced_search", omitted |-> o,
      args |-> [query |-> "collection:BILLS AND climate", collections |-> <<"PLAW">>,
                congress |-> <<117>>, doc_class |-> <<>>, committees |-> <<>>,
                date_issued_start |-> "", date_issued_end |-> "",
                last_modified_start |-> "", last_modified_end |-> "",
                package_count |-> None, granule_count |-> None,
                sort_by |-> "relevance", sort_order |-> "desc",
                page_size |-> 50, offset_mark |-> "*", ctx |-> FALSE]] :
        o \in {{}, {"collections", "congress", "doc_class", "committees"}}}
    \cup
    {[tool |-> "search_statutes", omitted |-> {},
      args |-> [query |-> "tax", collection |-> k, congress |-> None,
                title_number |-> "", section |-> "", start_date |-> "",
                end_date |-> "", page_size |-> 50, offset_mark |-> "*", ctx |-> FALSE]] :
        k \in {"", "PLAW", "INVALID"}}
    \cup
    {[tool |-> "get_related_packages", omitted |-> {},
      args |-> [package_id |-> "BILLS-116hr1-ih", ctx |-> FALSE]],
     [tool |-> "get_package_content", omitted |-> {},
      args |-> [package_id |-> "PLAW-117publ58", content_type |-> "pdf", ctx |-> FALSE]],
     [tool |-> "list_statute_collections", omitted |-> {}, args |-> [ctx |-> FALSE]],
     [tool |-> "status", omitted |-> {}, args |-> [elapsed_ms |-> 137]]}

\* the answers the upstream may give to a concurrent request
ConcResponses(tool) ==
    {StatusResponse(500), FailedRequest(Exc("ConnectTimeout", "timed out", None)),
     IF tool = "get_package_content"
     THEN OkResponse(None, <<77, 255>>, "<html>An Act</html>")
     ELSE OkResponse(Some([results |-> <<[packageId |-> "BILLS-117hr1-ih",
                                          collectionCode |-> "BILLS"],
                                         [packageId |-> "PLAW-117publ58",
                                          collectionCode |-> "PLAW"]>>,
                           count |-> 7, offsetMark |-> "AoJwcGFnZTM="]), <<>>, "")}

\* the arguments a handler is bound to: an omitted parameter is bound to
\* the shared default object
Bind(c) ==
    [k \in DOMAIN c.args |-> IF k \in c.omitted THEN defaults[k] ELSE c.args[k]]

\* the handler of a tool, run up to its HTTP request
Begin(tool, a) ==
    CASE tool = "advanced_search" -> advanced_search_begin(a)
      [] tool = "search_statutes" -> search_statutes_begin(a)
      [] tool = "get_related_packages" -> get_related_packages_begin(a)
      [] tool = "get_package_content" -> get_package_content_begin(a)
      [] tool = "list_statute_collections" -> list_statute_collections_begin(a)
      [] tool = "status" -> status_begin(a)

\* mutant: advanced_search appends to its collections list, which is the
\* shared default object when the caller omitted the parameter
TaskStart_appending_to_default(i) ==
    /\ tasks[i].pc = "idle"
    /\ \E c \in ConcCalls :
          LET a == Bind(c)
              b == Begin(c.tool, a)
          IN  /\ tasks' = [tasks EXCEPT ![i] =
                    [pc |-> IF b.exit # None THEN "done" ELSE "awaiting",
                     call |-> Some(c), args |-> Some(a), request |-> b.request,
                     response |-> None, outcome |-> b.exit]]
              /\ defaults' =
                    IF c.tool = "advanced_search" /\ "collections" \in c.omitted
                       /\ Len(defaults.collections) < 1
                    THEN [defaults EXCEPT !.collections = Append(@, "BILLS")]
                    ELSE defaults
    /\ UNCHANGED <<API_KEY, pc, call, now, client, requests, response, log, outcome,
                   listed>>

\* handler i starts and runs to its await, or to its early return or raise
TaskStart(i) ==
    /\ tasks[i].pc = "idle"
    /\ \E c \in ConcCalls :
          LET a == Bind(c)
              b == Begin(c.tool, a)
          IN  tasks' = [tasks EXCEPT ![i] =
                  [pc |-> IF b.exit # None THEN "done" ELSE "awaiting",
                   call |-> Some(c), args |-> Some(a), request |-> b.request,
                   response |-> None, outcome |-> b.exit]]
    /\ UNCHANGED <<API_KEY, pc, call, now, client, requests, response, log, outcome,
                   listed, defaults>>

\* the request of handler i completes and the handler runs to its end
TaskReceive(i) ==
    /\ tasks[i].pc = "awaiting"
    /\ \E resp \in ConcResponses(tasks[i].call[1].tool) :
          LET d == End(tasks[i].call[1].tool, tasks[i].args[1], tasks[i].request[1], resp)
          IN  tasks' = [tasks EXCEPT ![i] = [@ EXCEPT !.pc = "done",
                                                       !.response = Some(resp),
                                                       !.outcome = Some(d.outcome)]]
    /\ UNCHANGED <<API_KEY, pc, call, now, client, requests, response, log, outcome,
                   listed, defaults>>

\* the caller of handler i takes its result
TaskDeliver(i) ==
    /\ tasks[i].pc = "done"
    /\ tasks' = [tasks EXCEPT ![i] = IdleTask]
    /\ UNCHANGED <<API_KEY, pc, call, now, client, requests, response, log, outcome,
                   listed, defaults>>

NextConc ==
    \E i \in 1..MaxTasks :
        \/ TaskStart(i)
        \/ TaskReceive(i)
        \/ TaskDeliver(i)

SpecConc == Init /\ [][NextConc]_vars

(***************************************************************************)
(* Properties.                                                             *)
(***************************************************************************)
\* the invocation in progress or just ended
Invoked(tool) == call # None /\ call[1].tool = tool
Args == call[1].args
Ended == pc = "done"
Raised == Ended /\ outcome[1].kind = "raise"
Returned == Ended /\ outcome[1].kind = "return"
ReturnValue == outcome[1].value[1]
SentQuery == requests[1].json[1].query

NetworkTools ==
    {"get_collections", "get_packages_by_collection", "get_package_summary",
     "get_package_content", "get_published_packages", "get_published_range",
     "get_related_packages", "get_granule_related", "search_packages",
     "advanced_search", "search_statutes", "get_uscode_title",
     "get_public_laws_by_congress", "get_statutes_at_large", "get_statute_content"}

\* C1: with the API key unset, an invocation of any network-backed tool has
\* ended by raising a configuration error (a ValueError about the missing
\* GOVINFO_API_KEY) and has issued no HTTP request nor opened a client.
\* get_related_packages breaks it: it returns {"error": ...} instead.
C1_MissingKeyRaises ==
    (call # None /\ call[1].tool \in NetworkTools /\ ~Truthy(API_KEY)) =>
        /\ Raised
        /\ outcome[1].exc.type = "ValueError"
        /\ outcome[1].exc.msg \in {"GOVINFO_API_KEY not found in environment variables",
                                   "GOVINFO_API_KEY not set"}
        /\ requests = <<>>
        /\ client = "none"

\* search_statutes was called with no collection and no other filter
NoStatuteFilter ==
    /\ Args.collection = ""
    /\ Args.congress = None
    /\ Args.title_number = ""
    /\ Args.section = ""
    /\ Args.start_date = ""
    /\ Args.end_date = ""

\* C2: search_statutes with collection="" and no other filter sends exactly
\* the query "(collection:USCODE OR collection:STATUTE OR collection:PLAW OR
\* collection:COMPS) AND (q)" for the caller's query q.
C2_AllCollectionsQuery ==
    (Invoked("search_statutes") /\ NoStatuteFilter /\ requests # <<>>) =>
        /\ Len(requests) = 1
        /\ requests[1].method = "POST"
        /\ SentQuery =
             "(collection:USCODE OR collection:STATUTE OR collection:PLAW OR collection:COMPS) AND ("
             \o Args.query \o ")"

C2_Witness ==
    /\ Invoked("search_statutes")
    /\ NoStatuteFilter
    /\ Args.query = "civil rights"
    /\ pc = "awaiting"
    /\ SentQuery =
         "(collection:USCODE OR collection:STATUTE OR collection:PLAW OR collection:COMPS) AND (civil rights)"

\* C3: search_statutes called with a non-empty collection other than USCODE,
\* STATUTE, PLAW and COMPS ends by raising a ValueError without issuing an
\* HTTP request or opening a client; with the API key set the error is the
\* validation error naming the invalid collection.
C3_InvalidCollectionRejected ==
    (Invoked("search_statutes") /\ Args.collection # ""
        /\ Args.collection \notin {"USCODE", "STATUTE", "PLAW", "COMPS"}) =>
        /\ Raised
        /\ outcome[1].exc.type = "ValueError"
        /\ requests = <<>>
        /\ client = "none"
        /\ Truthy(API_KEY) =>
             outcome[1].exc.msg =
                "Invalid collection '" \o Args.collection
                \o "'. Must be one of: USCODE, STATUTE, PLAW, COMPS"

C3_Witness ==
    /\ Invoked("search_statutes")
    /\ Args.collection = "INVALID"
    /\ Truthy(API_KEY)
    /\ Raised
    /\ outcome[1].exc.msg =
         "Invalid collection 'INVALID'. Must be one of: USCODE, STATUTE, PLAW, COMPS"
    /\ requests = <<>>

\* the upstream answer was a 2xx response with a decoded JSON body
GotJson == response # None /\ response[1].kind = "response"
           /\ IsSuccess(response[1].status_code) /\ response[1].json # None
UpstreamData == response[1].json[1]

FourStatuteCodes == {"USCODE", "STATUTE", "PLAW", "COMPS"}

\* C4 as stated: whenever search_statutes without an explicit collection
\* returns, every entry of the returned result list carries one of the four
\* statute codes and the returned count is the length of that list (an
\* absent list read as empty, an absent count as 0).
C4_Original ==
    (Invoked("search_statutes") /\ Args.collection = "" /\ Returned) =>
        LET results == Get(ReturnValue, "results", <<>>)
        IN  /\ \A i \in 1..Len(results) :
                 /\ "collectionCode" \in DOMAIN results[i]
                 /\ results[i].collectionCode \in FourStatuteCodes
            /\ Get(ReturnValue, "count", 0) = Len(results)

\* C4 (amended): when search_statutes is called without an explicit
\* collection, the upstream call succeeds and the response carries a results
\* field, every entry of the returned result list has a collectionCode among
\* the four statute codes and the returned count equals the length of the
\* returned list; a response without a results field is returned as
\* received, with the upstream count.
C4_FilteredResults ==
    (Invoked("search_statutes") /\ Args.collection = "" /\ Returned /\ GotJson) =>
        IF "results" \in DOMAIN UpstreamData
        THEN /\ {"results", "count"} \subseteq DOMAIN ReturnValue
             /\ \A i \in 1..Len(ReturnValue.results) :
                  /\ "collectionCode" \in DOMAIN ReturnValue.results[i]
                  /\ ReturnValue.results[i].collectionCode \in FourStatuteCodes
             /\ ReturnValue.count = Len(ReturnValue.results)
        ELSE ReturnValue = UpstreamData

C4_Witness ==
    /\ Invoked("search_statutes")
    /\ Args.collection = ""
    /\ Returned
    /\ GotJson
    /\ {"results", "count"} \subseteq DOMAIN UpstreamData
    /\ UpstreamData.count = 7
    /\ Len(UpstreamData.results) = 2
    /\ UpstreamData.results[1].packageId = "BILLS-117hr1-ih"
    /\ UpstreamData.results[2].packageId = "USCODE-2022-title42"
    /\ Len(ReturnValue.results) = 1
    /\ ReturnValue.results[1].packageId = "USCODE-2022-title42"
    /\ ReturnValue.count = 1

\* get_public_laws_by_congress was called with no filter besides law_type
NoLawFilter ==
    /\ Args.law_number = ""
    /\ Args.start_date = ""
    /\ Args.end_date = ""

\* C5: get_public_laws_by_congress for congress N and law_type public
\* (private) and no other filter sends the query "collection:PLAW AND
\* congress:N AND (docClass:public OR title:public)" (respectively with
\* private); for congress 117 and public that is the literal string of the
\* specification.
C5_PublicLawsQuery ==
    (Invoked("get_public_laws_by_congress") /\ NoLawFilter /\ requests # <<>>) =>
        /\ \A t \in {"public", "private"} :
             Args.law_type = t =>
                SentQuery = "collection:PLAW AND congress:" \o ToString(Args.congress)
                            \o " AND (docClass:" \o t \o " OR title:" \o t \o ")"
        /\ (Args.congress = 117 /\ Args.law_type = "public") =>
             SentQuery = "collection:PLAW AND congress:117 AND (docClass:public OR title:public)"

C5_Witness ==
    /\ Invoked("get_public_laws_by_congress")
    /\ NoLawFilter
    /\ Args.congress = 117
    /\ Args.law_type = "public"
    /\ pc = "awaiting"
    /\ SentQuery = "collection:PLAW AND congress:117 AND (docClass:public OR title:public)"

\* C6: get_public_laws_by_congress called with a non-empty law_type that is
\* neither public nor private (the code compares in lower case) ends by
\* raising a ValueError without issuing an HTTP request or opening a client;
\* with the API key set the error is the validation error naming law_type.
C6_InvalidLawTypeRejected ==
    (Invoked("get_public_laws_by_congress") /\ Args.law_type # ""
        /\ lower(Args.law_type) \notin {"public", "private"}) =>
        /\ Raised
        /\ outcome[1].exc.type = "ValueError"
        /\ requests = <<>>
        /\ client = "none"
        /\ Truthy(API_KEY) =>
             outcome[1].exc.msg =
                "Invalid law_type '" \o Args.law_type \o "'. Must be 'public' or 'private'"

C6_Witness ==
    /\ Invoked("get_public_laws_by_congress")
    /\ Args.law_type = "bogus"
    /\ Truthy(API_KEY)
    /\ Raised
    /\ outcome[1].exc.msg = "Invalid law_type 'bogus'. Must be 'public' or 'private'"
    /\ requests = <<>>

\* the one value list_statute_collections may return
C7_Expected ==
    [statute_collections |->
        << [code |-> "USCODE", name |-> "United States Code",
            description |-> "The United States Code (USC) is the official codification of the general and permanent laws of the United States. It is organized into 54 titles covering broad subject areas."],
           [code |-> "STATUTE", name |-> "Statutes at Large",
            description |-> "The Statutes at Large is the official record of laws enacted by Congress. It contains the text of public and private laws, joint resolutions, and concurrent resolutions."],
           [code |-> "PLAW", name |-> "Public and Private Laws",
            description |-> "Public and Private Laws are the individual laws enacted by Congress before they are codified into the United States Code. Public laws affect the general public, while private laws affect specific individuals or entities."],
           [code |-> "COMPS", name |-> "Statutes Compilations",
            description |-> "Statutes Compilations contain various compilations and collections of statutes, including subject-specific compilations and historical collections."] >>,
     total_collections |-> 4]

\* C7: list_statute_collections returns exactly 4 entries with the codes
\* USCODE, STATUTE, PLAW and COMPS, each with a non-empty name and
\* description, and total_collections equal to the number of entries; every
\* call, with or without an API key and whatever was invoked before, returns
\* the same value and issues no HTTP request.
C7_ListStatuteCollections ==
    Invoked("list_statute_collections") =>
        /\ Returned
        /\ requests = <<>>
        /\ client = "none"
        /\ LET cs == ReturnValue.statute_collections
           IN  /\ Len(cs) = 4
               /\ {cs[i].code : i \in 1..Len(cs)} = FourStatuteCodes
               /\ \A i \in 1..Len(cs) : cs[i].name # "" /\ cs[i].description # ""
               /\ ReturnValue.total_collections = Len(cs)
        /\ ReturnValue = C7_Expected
        /\ \A i \in 1..Len(listed) : listed[i] = ReturnValue

C7_Witness ==
    /\ Invoked("list_statute_collections")
    /\ ~Truthy(API_KEY)
    /\ Returned
    /\ Len(listed) = 2
    /\ listed[1] = listed[2]
    /\ requests = <<>>

\* base64 decoding of a padded string: the inverse the claim speaks of
B64Index(c) == CHOOSE i \in 0..63 : B64Char(i) = c

RECURSIVE b64decode(_)
b64decode(str) ==
    IF Len(str) = 0 THEN <<>>
    ELSE LET c1 == B64Index(CharAt(str, 1))
             c2 == B64Index(CharAt(str, 2))
             b1 == c1 * 4 + c2 \div 16
         IN  IF CharAt(str, 3) = "=" THEN <<b1>>
             ELSE LET c3 == B64Index(CharAt(str, 3))
                      b2 == (c2 % 16) * 16 + c3 \div 4
                  IN  IF CharAt(str, 4) = "=" THEN <<b1, b2>>
                      ELSE <<b1, b2, (c3 % 4) * 64 + B64Index(CharAt(str, 4))>>
                           \o b64decode(SubSeq(str, 5, Len(str)))

\* the upstream answered with a 2xx status
GotOk == response # None /\ response[1].kind = "response"
         /\ IsSuccess(response[1].status_code)

\* C8: get_package_content with content_type "pdf", on a 2xx response,
\* returns a mapping with exactly the keys content_type and base64_content,
\* and base64-decoding base64_content gives the bytes of the response.
C8_PdfBase64RoundTrip ==
    (Invoked("get_package_content") /\ Args.content_type = "pdf" /\ Ended /\ GotOk) =>
        /\ Returned
        /\ DOMAIN ReturnValue = {"content_type", "base64_content"}
        /\ ReturnValue.content_type = "pdf"
        /\ Len(ReturnValue.base64_content) % 4 = 0
        /\ b64decode(ReturnValue.base64_content) = response[1].content

C8_Witness ==
    /\ Invoked("get_package_content")
    /\ Args.content_type = "pdf"
    /\ Returned
    /\ GotOk
    /\ response[1].content = <<77, 255>>
    /\ ReturnValue.base64_content = "Tf8="

\* whether the string text contains the string part
Contains(text, part) ==
    \E i \in 1..(Len(text) - Len(part) + 1) :
        SubSeq(text, i, i + Len(part) - 1) = part

\* a message that points at the summary endpoint for the available formats
Guidance(msg) ==
    /\ Contains(msg, "get_package_summary()")
    /\ Contains(msg, "available formats")
    /\ Contains(msg, "'download' field")

\* the upstream answered with a non-2xx status
GotErrorStatus == response # None /\ response[1].kind = "response"
                  /\ ~IsSuccess(response[1].status_code)

Digits == "0123456789"
IsDigit(c) == \E i \in 1..10 : CharAt(Digits, i) = c
DigitValue(c) == (CHOOSE i \in 1..10 : CharAt(Digits, i) = c) - 1

RECURSIVE ParseNat(_)
ParseNat(str) ==
    IF Len(str) = 0 THEN 0
    ELSE 10 * ParseNat(SubSeq(str, 1, Len(str) - 1)) + DigitValue(CharAt(str, Len(str)))

AllDigits(str) == \A i \in 1..Len(str) : IsDigit(CharAt(str, i))

IsLeap(y) == y % 4 = 0 /\ (y % 100 # 0 \/ y % 400 = 0)

DaysInMonth(y, m) ==
    IF m = 2 THEN (IF IsLeap(y) THEN 29 ELSE 28)
    ELSE IF m \in {4, 6, 9, 11} THEN 30 ELSE 31

\* days from 1970-01-01 to the first day of year y (y >= 1970)
RECURSIVE DaysBeforeYear(_)
DaysBeforeYear(y) ==
    IF y <= 1970 THEN 0
    ELSE DaysBeforeYear(y - 1) + (IF IsLeap(y - 1) THEN 366 ELSE 365)

RECURSIVE DaysBeforeMonth(_, _)
DaysBeforeMonth(y, m) ==
    IF m <= 1 THEN 0 ELSE DaysBeforeMonth(y, m - 1) + DaysInMonth(y, m - 1)

DayNumber(y, m, d) == DaysBeforeYear(y) + DaysBeforeMonth(y, m) + d - 1

\* the lower bound in the path /collections/{collection}/{start}[/{end}]
StartStamp ==
    LET prefix == "https://api.govinfo.gov/collections/" \o Args.collection \o "/"
    IN  SubSeq(requests[1].url, Len(prefix) + 1, Len(prefix) + 20)

\* a string of the shape YYYY-MM-DDTHH:MM:SSZ naming a date and a time
WellFormedStamp(ts) ==
    /\ Len(ts) = 20
    /\ AllDigits(SubSeq(ts, 1, 4)) /\ CharAt(ts, 5) = "-"
    /\ AllDigits(SubSeq(ts, 6, 7)) /\ CharAt(ts, 8) = "-"
    /\ AllDigits(SubSeq(ts, 9, 10)) /\ CharAt(ts, 11) = "T"
    /\ AllDigits(SubSeq(ts, 12, 13)) /\ CharAt(ts, 14) = ":"
    /\ AllDigits(SubSeq(ts, 15, 16)) /\ CharAt(ts, 17) = ":"
    /\ AllDigits(SubSeq(ts, 18, 19)) /\ CharAt(ts, 20) = "Z"
    /\ ParseNat(SubSeq(ts, 6, 7)) \in 1..12
    /\ ParseNat(SubSeq(ts, 9, 10)) \in
          1..DaysInMonth(ParseNat(SubSeq(ts, 1, 4)), ParseNat(SubSeq(ts, 6, 7)))
    /\ ParseNat(SubSeq(ts, 12, 13)) \in 0..23
    /\ ParseNat(SubSeq(ts, 15, 16)) \in 0..59
    /\ ParseNat(SubSeq(ts, 18, 19)) \in 0..59

StampDay(ts) ==
    DayNumber(ParseNat(SubSeq(ts, 1, 4)), ParseNat(SubSeq(ts, 6, 7)),
              ParseNat(SubSeq(ts, 9, 10)))

StampSecond(ts) ==
    ParseNat(SubSeq(ts, 12, 13)) * 3600 + ParseNat(SubSeq(ts, 15, 16)) * 60
    + ParseNat(SubSeq(ts, 18, 19))

\* get_packages_by_collection issued its request without a start_date
DefaultStartUsed ==
    /\ Invoked("get_packages_by_collection")
    /\ Args.start_date = ""
    /\ requests # <<>>

\* C10 as stated: with no start_date the lower bound is the date 365 days
\* before the current UTC time followed by the fixed time of day T00:00:00Z.
C10_Original ==
    DefaultStartUsed =>
        /\ WellFormedStamp(StartStamp)
        /\ StampDay(StartStamp) = now[1].days - 365
        /\ SubSeq(StartStamp, 11, 20) = "T00:00:00Z"

\* C10 (amended): with no start_date the lower bound is the instant 365
\* days before the current UTC time, formatted as YYYY-MM-DDTHH:MM:SSZ with
\* the current time of day (not a fixed 00:00:00); an explicitly given
\* start_date is sent in the same shape as <start_date>T00:00:00Z.
C10_DefaultStart ==
    /\ DefaultStartUsed =>
        /\ WellFormedStamp(StartStamp)
        /\ StampDay(StartStamp) = now[1].days - 365
        /\ StampSecond(StartStamp) = now[1].secs
    /\ (Invoked("get_packages_by_collection") /\ Args.start_date # ""
          /\ requests # <<>>) =>
        /\ WellFormedStamp(StartStamp)
        /\ StartStamp = Args.start_date \o "T00:00:00Z"

C10_Witness ==
    /\ DefaultStartUsed
    /\ now = Some([days |-> 20759, secs |-> 42607])
    /\ StartStamp = "2025-11-02T11:50:07Z"
    /\ pc = "awaiting"

\* C11: get_packages_by_collection requests the path
\* /collections/{collection}/{start}/{end} with end = <end_date>T23:59:59Z
\* exactly when end_date is non-empty, and the path
\* /collections/{collection}/{start}, with the start timestamp alone, exactly
\* when end_date is empty.
C11_EndDatePath ==
    (Invoked("get_packages_by_collection") /\ requests # <<>>) =>
        LET prefix == "https://api.govinfo.gov/collections/" \o Args.collection \o "/"
            url == requests[1].url
        IN  /\ requests[1].method = "GET"
            /\ SubSeq(url, 1, Len(prefix)) = prefix
            /\ WellFormedStamp(StartStamp)
            /\ Args.end_date # "" <=>
                 url = prefix \o StartStamp \o "/" \o Args.end_date \o "T23:59:59Z"
            /\ Args.end_date = "" <=> url = prefix \o StartStamp

C11_Witness ==
    /\ Invoked("get_packages_by_collection")
    /\ pc = "awaiting"
    /\ Args.start_date = "2024-01-15"
    /\ Args.end_date = "2024-06-30"
    /\ requests[1].url =
         "https://api.govinfo.gov/collections/BILLS/2024-01-15T00:00:00Z/2024-06-30T23:59:59Z"

\* the invocation is of a network-backed tool and passes the API-key check
\* and the validation of its arguments
PassesChecks ==
    /\ call # None
    /\ call[1].tool \in NetworkTools
    /\ Truthy(API_KEY)
    /\ call[1].tool = "search_statutes" =>
         (Args.collection = "" \/ Args.collection \in FourStatuteCodes)
    /\ call[1].tool = "get_public_laws_by_congress" =>
         (Args.law_type = "" \/ lower(Args.law_type) \in {"public", "private"})
    /\ call[1].tool = "get_statute_content" =>
         Args.content_type \in {"summary", "xml", "pdf", "text"}

\* C12: a network-backed invocation that passes its API-key and validation
\* checks has issued exactly one HTTP request, while it awaits the answer
\* and after it ended, whatever the answer was (2xx, non-2xx status,
\* transport failure); the client scope it opened is open only while the
\* request is awaited and is closed when the call has returned or re-raised.
C12_OneRequestClientClosed ==
    PassesChecks =>
        /\ Len(requests) = 1
        /\ pc \in {"awaiting", "done"}
        /\ pc = "awaiting" => (client = "open" /\ response = None /\ outcome = None)
        /\ pc = "done" => (client = "closed" /\ response # None /\ outcome # None)

C12_Witness ==
    /\ PassesChecks
    /\ Invoked("get_statute_content")
    /\ Raised
    /\ response[1].kind = "exception"
    /\ outcome[1].exc.type = "ConnectTimeout"
    /\ Len(requests) = 1
    /\ client = "closed"

\* an error was detected in the invocation that ended: a missing key or a
\* validation failure before the request, a non-2xx status or a transport
\* failure after it
ErrorDetected ==
    /\ call # None
    /\ Ended
    /\ \/ call[1].tool \in NetworkTools /\ ~PassesChecks
       \/ response # None /\ response[1].kind = "exception"
       \/ GotErrorStatus

\* C13: in every tool, an invocation in which an error was detected (missing
\* key, validation failure, non-2xx response, transport failure) has logged
\* the error at error level as its last line and has ended by raising that
\* same error: the transport exception itself, the HTTPStatusError of the
\* response received, or the ValueError whose message was logged; it never
\* ends in a normal return.
C13_ErrorsLoggedAndPropagated ==
    ErrorDetected =>
        /\ Raised
        /\ log # <<>>
        /\ log[Len(log)].level = "error"
        /\ response = None =>
             /\ outcome[1].exc.type = "ValueError"
             /\ log[Len(log)].msg = outcome[1].exc.msg
        /\ (response # None /\ response[1].kind = "exception") =>
             outcome[1].exc = response[1].exc
        /\ GotErrorStatus =>
             /\ outcome[1].exc.type = "HTTPStatusError"
             /\ outcome[1].exc.response[1].status_code = response[1].status_code

\* the clauses of the query of search_packages, each empty when its filter
\* is not given
DocClassClause == IF Args.doc_class # "" THEN "docClass:" \o Args.doc_class \o " AND " ELSE ""
CongressClause ==
    IF Args.congress # None THEN "congress:" \o ToString(Args.congress[1]) \o " AND " ELSE ""
CollectionClause ==
    IF Args.collection # "" THEN "collection:" \o Args.collection \o " AND " ELSE ""
TitleClause == IF Args.title # "" THEN "title:\"" \o Args.title \o "\" AND " ELSE ""
StartClause ==
    IF Args.start_date # "" THEN "publishdate:>=" \o Args.start_date \o " AND " ELSE ""
EndClause ==
    IF Args.end_date # "" THEN "publishdate:<=" \o Args.end_date \o " AND " ELSE ""

\* C14 as stated: the query search_packages sends reads, from left to right,
\* the two publishdate clauses (outermost, in either order), then the
\* docClass, congress, collection and title clauses in this order, then the
\* user query, each clause only if its filter is present.
C14_Original ==
    (Invoked("search_packages") /\ requests # <<>>) =>
        LET inner == DocClassClause \o CongressClause \o CollectionClause
                     \o TitleClause \o Args.query
        IN  SentQuery \in {StartClause \o EndClause \o inner,
                           EndClause \o StartClause \o inner}

\* C14 (amended): the query search_packages sends reads, from left to right,
\* `publishdate:<=end AND`, `publishdate:>=start AND`, `title:"X" AND`,
\* `docClass:X AND`, `congress:N AND`, `collection:X AND` and the user query,
\* each clause only if its filter is present: the title clause stands to the
\* left of the docClass, congress and collection clauses, not to their right.
C14_PrefixOrder ==
    (Invoked("search_packages") /\ requests # <<>>) =>
        /\ requests[1].method = "POST"
        /\ SentQuery = EndClause \o StartClause \o TitleClause \o DocClassClause
                       \o CongressClause \o CollectionClause \o Args.query

C14_Witness ==
    /\ Invoked("search_packages")
    /\ pc = "awaiting"
    /\ Args.title = "Clean Air"
    /\ Args.doc_class = "hr"
    /\ SentQuery = "publishdate:<=2024-06-30 AND publishdate:>=2024-01-15 AND title:\"Clean Air\" AND docClass:hr AND congress:117 AND collection:BILLS AND climate"

\* two invocations of advanced_search agree on the parameters that reach
\* the request body
SameSearchFrame(a1, a2) ==
    /\ a1.query = a2.query
    /\ a1.sort_by = a2.sort_by
    /\ a1.sort_order = a2.sort_order
    /\ a1.page_size = a2.page_size
    /\ a1.offset_mark = a2.offset_mark

C16_GranuleKeyOnly ==
    (Invoked("get_granule_related") /\ requests # <<>>) =>
        /\ requests[1].method = "GET"
        /\ requests[1].url = "https://api.govinfo.gov/related/" \o Args.granule_id
        /\ \A a2 \in GetGranuleRelatedArgs :
             a2.granule_id = Args.granule_id =>
                get_granule_related_begin(a2).request = Some(requests[1])

C16_Witness ==
    /\ Invoked("get_granule_related")
    /\ pc = "awaiting"
    /\ Args.package_id = "PLAW-117publ58"
    /\ Args.granule_id = "CFR-2023-title12-vol1-sec1-1"
    /\ requests[1].url = "https://api.govinfo.gov/related/CFR-2023-title12-vol1-sec1-1"
    /\ \E a2 \in GetGranuleRelatedArgs :
         /\ a2.granule_id = Args.granule_id
         /\ a2.package_id # Args.package_id
         /\ get_granule_related_begin(a2).request = Some(requests[1])

\* the query parameters of the request of the invocation
SentParams == requests[1].params[1]

\* the parameter key is sent exactly when the value is non-empty, and then
\* carries the value
SentIffGiven(key, value) ==
    /\ key \in DOMAIN SentParams <=> value # ""
    /\ value # "" => SentParams[key] = value

\* C17: get_published_range sends the collection parameter in every request
\* it issues; get_published_packages sends it only when collection is
\* non-empty; docClass, and modifiedSince for the range variant, are sent
\* only when doc_class and modified_since are non-empty.
C17_CollectionAlwaysSentForRange ==
    /\ (Invoked("get_published_range") /\ requests # <<>>) =>
         /\ "collection" \in DOMAIN SentParams
         /\ SentParams.collection = Args.collection
         /\ SentIffGiven("docClass", Args.doc_class)
         /\ SentIffGiven("modifiedSince", Args.modified_since)
    /\ (Invoked("get_published_packages") /\ requests # <<>>) =>
         /\ SentIffGiven("collection", Args.collection)
         /\ SentIffGiven("docClass", Args.doc_class)
         /\ "modifiedSince" \notin DOMAIN SentParams

C17_Witness ==
    /\ Invoked("get_published_range")
    /\ pc = "awaiting"
    /\ Args.collection = "BILLS"
    /\ Args.doc_class = ""
    /\ Args.modified_since = ""
    /\ DOMAIN SentParams = {"pageSize", "offsetMark", "collection"}
    /\ SentParams.collection = "BILLS"

\* what a filter clause with an empty value looks like in a query string
EmptyClauses ==
    {"collection: ", "congress: ", "docClass: ", "title: ", "title:\"\"",
     "section: ", "chapter: ", "publishdate: ", "publishdate:>= ",
     "publishdate:<= ", "publishdate:[ TO", "TO ]", "AND  AND", " AND  "}

HasEmptyClause(q) == \E bad \in EmptyClauses : Contains(q \o " ", bad)

\* the query parameters sent whose values are strings (pageSize and congress
\* are numbers)
TextParams == DOMAIN SentParams \ {"pageSize", "congress"}

\* C18 as stated: no request carries a query parameter with an empty value,
\* nor a query clause with an empty value.
C18_Original ==
    requests # <<>> =>
        /\ requests[1].params # None =>
             \A k \in TextParams : SentParams[k] # ""
        /\ requests[1].json # None => ~HasEmptyClause(SentQuery)

\* C18 (amended): an optional filter whose value is unset (empty string or
\* null) contributes no query parameter and no query clause; a request
\* carries an empty value only for a required argument the caller passed
\* empty, which is sent as given: the collection parameter of
\* get_published_range and the title clause of get_uscode_title.
C18_UnsetFiltersOmitted ==
    requests # <<>> =>
        /\ requests[1].params # None =>
             \A k \in TextParams :
                SentParams[k] = "" => (Invoked("get_published_range") /\ k = "collection")
        /\ requests[1].json # None =>
             IF Invoked("get_uscode_title") /\ Args.title_number = ""
             THEN \A bad \in EmptyClauses \ {"title: "} : ~Contains(SentQuery \o " ", bad)
             ELSE ~HasEmptyClause(SentQuery)
        /\ Invoked("get_packages_by_collection") =>
             /\ "congress" \in DOMAIN SentParams <=> Args.congress # None
             /\ SentIffGiven("docClass", Args.doc_class)

C18_Witness ==
    /\ Invoked("get_packages_by_collection")
    /\ pc = "awaiting"
    /\ Args.congress = None
    /\ Args.doc_class = ""
    /\ DOMAIN SentParams = {"pageSize", "offsetMark"}

\* the key of the download link of a content type
LinkKey(content_type) ==
    CASE content_type = "xml" -> "xmlLink"
      [] content_type = "pdf" -> "pdfLink"
      [] content_type = "text" -> "txtLink"

\* C19: get_statute_content with content_type xml, pdf or text, on a
\* decoded 2xx summary: if the summary's download object contains the
\* matching link (xmlLink, pdfLink, txtLink) the returned summary is the
\* fetched one with requested_content_url set to that link and content_type
\* set to the requested type; if the link or the download object is absent
\* the fetched summary is returned unchanged; the call returns in both cases.
C19_RequestedContentUrl ==
    (Invoked("get_statute_content") /\ Args.content_type \in {"xml", "pdf", "text"}
        /\ Ended /\ GotJson) =>
        LET data == UpstreamData
            key == LinkKey(Args.content_type)
        IN  /\ Returned
            /\ IF "download" \in DOMAIN data /\ key \in DOMAIN data.download
               THEN /\ DOMAIN ReturnValue =
                         DOMAIN data \cup {"requested_content_url", "content_type"}
                    /\ ReturnValue.requested_content_url = data.download[key]
                    /\ ReturnValue.content_type = Args.content_type
                    /\ \A k \in DOMAIN data \ {"requested_content_url", "content_type"} :
                         ReturnValue[k] = data[k]
               ELSE ReturnValue = data

C19_Witness ==
    /\ Invoked("get_statute_content")
    /\ Args.content_type = "pdf"
    /\ Returned
    /\ GotJson
    /\ "download" \in DOMAIN UpstreamData
    /\ DOMAIN UpstreamData.download = {"pdfLink", "xmlLink"}
    /\ ReturnValue.requested_content_url =
         "https://www.govinfo.gov/content/pkg/PLAW-117publ58/pdf"
    /\ ReturnValue.content_type = "pdf"

\* C20: get_statute_content called with a content_type other than summary,
\* xml, pdf and text ends by raising a ValueError without issuing an HTTP
\* request or opening a client; with the API key set the error is the
\* validation error naming the content type.
C20_InvalidContentTypeRejected ==
    (Invoked("get_statute_content")
        /\ Args.content_type \notin {"summary", "xml", "pdf", "text"}) =>
        /\ Raised
        /\ outcome[1].exc.type = "ValueError"
        /\ requests = <<>>
        /\ client = "none"
        /\ Truthy(API_KEY) =>
             outcome[1].exc.msg =
                "Invalid content_type '" \o Args.content_type
                \o "'. Must be one of: summary, xml, pdf, text"

C20_Witness ==
    /\ Invoked("get_statute_content")
    /\ Args.content_type = "PDF"
    /\ Truthy(API_KEY)
    /\ Raised
    /\ outcome[1].exc.msg =
         "Invalid content_type 'PDF'. Must be one of: summary, xml, pdf, text"
    /\ requests = <<>>

\* two concurrent handlers that were given the same call were bound to the
\* same arguments and sent the same request, and if they received the same
\* answer they ended the same way
SameCallSameResult ==
    \A i, j \in 1..MaxTasks :
        (tasks[i].call # None /\ tasks[i].call = tasks[j].call) =>
            /\ tasks[i].args = tasks[j].args
            /\ tasks[i].request = tasks[j].request
            /\ (tasks[i].response # None /\ tasks[i].response = tasks[j].response) =>
                 tasks[i].outcome = tasks[j].outcome

\* no step of any handler writes the state the handlers share: the API key
\* and the default argument objects (the statute collection map is a
\* constant of the model)
SharedStateKept == API_KEY' = API_KEY /\ defaults' = defaults

\* C21: in every interleaving of concurrent invocations, the request and
\* the result of an invocation depend only on its own call and its own
\* upstream answer (two invocations of the same call send the same request
\* and, given the same answer, end the same way, however the others are
\* interleaved), and no step writes the API key or a default argument value.
C21_Independent == []SameCallSameResult /\ [][SharedStateKept]_vars

C21_Witness ==
    /\ tasks[1].call # None
    /\ tasks[1].call = tasks[2].call
    /\ tasks[1].call[1].tool = "search_statutes"
    /\ tasks[1].args[1].collection = ""
    /\ tasks[1].pc = "done"
    /\ tasks[2].pc = "done"
    /\ tasks[1].response # None
    /\ tasks[1].response[1].kind = "response"
    /\ tasks[1].response[1].status_code = 200
    /\ tasks[2].response = tasks[1].response
    /\ tasks[1].outcome[1].value[1].count = 1
    /\ tasks[2].outcome = tasks[1].outcome

PaginatedTools ==
    {"get_collections", "get_packages_by_collection", "get_published_packages",
     "get_published_range", "search_packages", "advanced_search", "search_statutes",
     "get_uscode_title", "get_public_laws_by_congress", "get_statutes_at_large"}

\* the query parameters of a GET request, the JSON body of a POST request
SentEnvelope ==
    IF requests[1].json # None THEN requests[1].json[1] ELSE requests[1].params[1]

\* the pagination cursor fields of the upstream data are returned as received
CursorReturned ==
    \A k \in {"offsetMark", "nextPage"} :
        /\ k \in DOMAIN ReturnValue <=> k \in DOMAIN UpstreamData
        /\ k \in DOMAIN UpstreamData => ReturnValue[k] = UpstreamData[k]

\* C22 as stated: every request of a paginated tool carries the caller's
\* page_size and offset_mark verbatim (the same JSON value on the wire), and
\* the cursor of a decoded 2xx response is returned unmodified.
C22_Original ==
    (call # None /\ call[1].tool \in PaginatedTools /\ requests # <<>>) =>
        /\ ToString(SentEnvelope.pageSize) = ToString(Args.page_size)
        /\ SentEnvelope.offsetMark = Args.offset_mark
        /\ (Returned /\ GotJson) => CursorReturned

\* C22 (amended): every request of a paginated tool carries the caller's
\* offset_mark verbatim and the caller's page_size, verbatim except that
\* advanced_search sends page_size in its decimal string form; the cursor of
\* a decoded 2xx response is returned unmodified.
C22_PaginationPassedThrough ==
    (call # None /\ call[1].tool \in PaginatedTools /\ requests # <<>>) =>
        /\ IF call[1].tool = "advanced_search"
           THEN SentEnvelope.pageSize = ToString(Args.page_size)
           ELSE SentEnvelope.pageSize = Args.page_size
        /\ SentEnvelope.offsetMark = Args.offset_mark
        /\ (Returned /\ GotJson) => CursorReturned

C22_Witness ==
    /\ Invoked("advanced_search")
    /\ Args.page_size = 10
    /\ Args.offset_mark = "AoJwcGFnZTI="
    /\ Returned
    /\ GotJson
    /\ SentEnvelope.pageSize = "10"
    /\ SentEnvelope.offsetMark = "AoJwcGFnZTI="
    /\ "offsetMark" \in DOMAIN UpstreamData
    /\ ReturnValue.offsetMark = "AoJwcGFnZTM="

\* C23: an ended status invocation has returned, never raised; it reports
\* "healthy" exactly when its probe request to the collections endpoint was
\* answered with a 2xx status and "degraded" otherwise (key missing, non-2xx
\* answer, timeout or other failure of the request); with the key missing no
\* request was issued and no client opened.
C23_HealthyIffProbeSucceeded ==
    (Invoked("status") /\ Ended) =>
        /\ Returned
        /\ ReturnValue.status \in {"healthy", "degraded"}
        /\ ReturnValue.status = "healthy" <=> (requests # <<>> /\ GotOk)
        /\ ReturnValue.api.is_healthy <=> ReturnValue.status = "healthy"
        /\ ~Truthy(API_KEY) => (requests = <<>> /\ client = "none")
        /\ requests # <<>> =>
             /\ Len(requests) = 1
             /\ requests[1].method = "GET"
             /\ requests[1].url = "https://api.govinfo.gov/collections"
             /\ requests[1].timeout = 5

C23_Witness ==
    /\ Invoked("status")
    /\ Ended
    /\ requests # <<>>
    /\ response # None
    /\ response[1].kind = "response"
    /\ response[1].status_code = 500
    /\ Returned
    /\ ReturnValue.status = "degraded"
    /\ ReturnValue.api.status = "error: HTTPStatusError"

\* the text of a clause when its filter is present, nothing otherwise
ClauseIf(present, text) == IF present THEN text ELSE ""

\* C24: every request of search_statutes carries the query made of the base
\* expression, "collection:X AND (query)" for a given collection X and the
\* four-way OR form otherwise, followed in this order by " AND congress:N",
\* " AND title:T", " AND section:S", " AND publishdate:[start TO *]" and
\* " AND publishdate:[* TO end]", each only when its filter is present; the
\* request asks for one sort, by score, descending.  (A collection that
\* reaches the request is one of the four codes.)
C24_StatuteQueryOrder ==
    (Invoked("search_statutes") /\ requests # <<>>) =>
        /\ Args.collection \in {"", "USCODE", "STATUTE", "PLAW", "COMPS"}
        /\ SentQuery =
             (IF Args.collection # ""
              THEN "collection:" \o Args.collection \o " AND (" \o Args.query \o ")"
              ELSE "(collection:USCODE OR collection:STATUTE OR collection:PLAW OR collection:COMPS) AND ("
                   \o Args.query \o ")")
             \o (IF Args.congress # None
                 THEN " AND congress:" \o ToString(Args.congress[1]) ELSE "")
             \o ClauseIf(Args.title_number # "", " AND title:" \o Args.title_number)
             \o ClauseIf(Args.section # "", " AND section:" \o Args.section)
             \o ClauseIf(Args.start_date # "",
                         " AND publishdate:[" \o Args.start_date \o " TO *]")
             \o ClauseIf(Args.end_date # "",
                         " AND publishdate:[* TO " \o Args.end_date \o "]")
        /\ requests[1].json[1].sorts = <<[field |-> "score", sortOrder |-> "DESC"]>>

C24_Witness ==
    /\ Invoked("search_statutes")
    /\ requests # <<>>
    /\ SentQuery = "collection:USCODE AND (civil rights) AND congress:117 AND title:42"
                   \o " AND section:1983 AND publishdate:[2024-01-15 TO *]"
                   \o " AND publishdate:[* TO 2024-06-30]"

\* the clauses folded onto q one after the other, each put in front of what
\* was built before it
RECURSIVE FoldOnto(_, _)
FoldOnto(clauses, q) ==
    IF clauses = <<>> THEN q ELSE FoldOnto(Tail(clauses), Head(clauses) \o q)

\* the number of positions of s at which sub starts
Occurrences(sub, s) ==
    Cardinality({i \in 1..(Len(s) - Len(sub) + 1) : SubSeq(s, i, i + Len(sub) - 1) = sub})

\* the filters of search_packages that are present
PresentFilters ==
    {k \in {"collection", "doc_class", "title", "start_date", "end_date"} : Args[k] # ""}
    \cup {k \in {"congress"} : Args.congress # None}

\* C25: the query search_packages sends is the user's query with the clauses
\* of the present filters folded onto it in the order collection, congress,
\* docClass, title (a quoted phrase), publish-date lower bound, publish-date
\* upper bound, each new clause put in front; it has one " AND " per present
\* filter, and it ends with the user's query text.
C25_FoldedInFixedOrder ==
    (Invoked("search_packages") /\ requests # <<>>) =>
        /\ SentQuery = FoldOnto(<<CollectionClause, CongressClause, DocClassClause,
                                  TitleClause, StartClause, EndClause>>, Args.query)
        /\ Occurrences(" AND ", SentQuery) = Cardinality(PresentFilters)
        /\ Len(SentQuery) >= Len(Args.query)
        /\ SubSeq(SentQuery, Len(SentQuery) - Len(Args.query) + 1, Len(SentQuery))
             = Args.query
        /\ Args.title # "" => Occurrences("title:\"" \o Args.title \o "\"", SentQuery) = 1

C25_Witness ==
    /\ Invoked("search_packages")
    /\ requests # <<>>
    /\ PresentFilters = {"collection", "title", "end_date"}
    /\ SentQuery = "publishdate:<=2024-06-30 AND title:\"Clean Air\" AND collection:BILLS AND climate"

\* C26: every request of advanced_search is a POST whose body has pageSize
\* equal to the decimal string of page_size, exactly one sort entry, with
\* field "score" exactly when sort_by is "relevance" and field sort_by
\* otherwise and with sortOrder the upper-cased sort_order, and resultLevel
\* "default".
C26_AdvancedSearchBody ==
    (Invoked("advanced_search") /\ requests # <<>>) =>
        LET body == requests[1].json[1]
        IN  /\ requests[1].method = "POST"
            /\ DOMAIN body = {"query", "pageSize", "offsetMark", "sorts", "resultLevel"}
            /\ body.pageSize = (IF Args.page_size = 50 THEN "50" ELSE "10")
            /\ Args.page_size \in {50, 10}
            /\ Len(body.sorts) = 1
            /\ body.sorts[1].field = "score" <=> Args.sort_by = "relevance"
            /\ Args.sort_by # "relevance" => body.sorts[1].field = Args.sort_by
            /\ body.sorts[1].sortOrder =
                 (CASE Args.sort_order \in {"desc", "Desc"} -> "DESC"
                    [] Args.sort_order = "asc" -> "ASC")
            /\ body.resultLevel = "default"

C26_Witness ==
    /\ Invoked("advanced_search")
    /\ requests # <<>>
    /\ Args.sort_by = "dateIssued"
    /\ Args.sort_order = "Desc"
    /\ Args.page_size = 10
    /\ requests[1].json[1].sorts = <<[field |-> "dateIssued", sortOrder |-> "DESC"]>>
    /\ requests[1].json[1].pageSize = "10"

\* the law-type clause of get_public_laws_by_congress, for a law type that
\* passed validation
LawTypeClause ==
    IF Args.law_type = "" THEN ""
    ELSE IF Args.law_type \in {"public", "Public"}
    THEN " AND (docClass:public OR title:public)"
    ELSE " AND (docClass:private OR title:private)"

\* C27: every request of get_public_laws_by_congress carries the query
\* "collection:PLAW AND congress:N" followed in this order by the law-type
\* clause, " AND <law_number>" (the bare number, no field name),
\* " AND publishdate:[start TO *]" and " AND publishdate:[* TO end]", each
\* only when its filter is present; the request asks for one sort, by
\* publishdate, descending.
C27_PublicLawsQueryOrder ==
    (Invoked("get_public_laws_by_congress") /\ requests # <<>>) =>
        /\ Args.law_type \in {"", "public", "Public", "private"}
        /\ SentQuery =
             "collection:PLAW AND congress:" \o ToString(Args.congress)
             \o LawTypeClause
             \o ClauseIf(Args.law_number # "", " AND " \o Args.law_number)
             \o ClauseIf(Args.start_date # "",
                         " AND publishdate:[" \o Args.start_date \o " TO *]")
             \o ClauseIf(Args.end_date # "",
                         " AND publishdate:[* TO " \o Args.end_date \o "]")
        /\ requests[1].json[1].sorts = <<[field |-> "publishdate", sortOrder |-> "DESC"]>>

C27_Witness ==
    /\ Invoked("get_public_laws_by_congress")
    /\ requests # <<>>
    /\ Args.law_type = "Public"
    /\ SentQuery = "collection:PLAW AND congress:117 AND (docClass:public OR title:public)"
                   \o " AND 58 AND publishdate:[2024-01-15 TO *]"
                   \o " AND publishdate:[* TO 2024-06-30]"

\* the content types of the inputs that are html, xml or text in lower case
TextTypes == {"html", "xml", "text", "Text"}

\* C28: get_package_content with the key set issues its request whatever the
\* content_type; on a 2xx response it returns the response text when
\* content_type in lower case is html, xml or text, and for every other
\* content_type ("pdf" and "PDF", and the unknown "docx", which is fetched
\* from the htm endpoint) the mapping with exactly the keys content_type,
\* carrying the caller's value as given, and base64_content.
C28_RawOrBase64 ==
    Invoked("get_package_content") =>
        /\ Truthy(API_KEY) =>
             /\ Len(requests) = 1
             /\ Args.content_type \notin {"html", "xml", "pdf", "text", "PDF", "Text"} =>
                  requests[1].url = "https://api.govinfo.gov/packages/"
                                    \o Args.package_id \o "/htm"
        /\ (Ended /\ GotOk) =>
             /\ Returned
             /\ IF Args.content_type \in TextTypes
                THEN ReturnValue = response[1].text
                ELSE /\ DOMAIN ReturnValue = {"content_type", "base64_content"}
                     /\ ReturnValue.content_type = Args.content_type
                     /\ b64decode(ReturnValue.base64_content) = response[1].content

C28_Witness ==
    /\ Invoked("get_package_content")
    /\ Args.content_type = "docx"
    /\ Ended
    /\ GotOk
    /\ response[1].content = <<77, 255>>
    /\ Returned
    /\ ReturnValue = [content_type |-> "docx", base64_content |-> "Tf8="]

\* the invocation is one of the three validating statute tools and carries
\* an argument its validation refuses
InvalidStatuteArgument ==
    \/ Invoked("search_statutes")
         /\ Args.collection \notin {"", "USCODE", "STATUTE", "PLAW", "COMPS"}
    \/ Invoked("get_public_laws_by_congress")
         /\ Args.law_type \notin {"", "public", "Public", "private"}
    \/ Invoked("get_statute_content")
         /\ Args.content_type \notin {"summary", "xml", "pdf", "text"}

\* C29: search_statutes, get_public_laws_by_congress and get_statute_content
\* called with an invalid collection, law_type or content_type end by raising
\* a ValueError before any request is issued or client opened; with the API
\* key unset the error is the missing-key error, with the key set it is the
\* validation error.  With the key unset and valid arguments the missing-key
\* error is raised as well, also before the client is opened.
C29_KeyCheckPrecedesValidation ==
    /\ InvalidStatuteArgument =>
         /\ Raised
         /\ outcome[1].exc.type = "ValueError"
         /\ requests = <<>>
         /\ client = "none"
         /\ outcome[1].exc.msg = "GOVINFO_API_KEY not found in environment variables"
              <=> ~Truthy(API_KEY)
         /\ Truthy(API_KEY) => Contains(outcome[1].exc.msg, "Invalid ")
    /\ (call # None
        /\ call[1].tool \in {"search_statutes", "get_public_laws_by_congress",
                             "get_statute_content"}
        /\ ~Truthy(API_KEY)) =>
         /\ Raised
         /\ outcome[1].exc.msg = "GOVINFO_API_KEY not found in environment variables"
         /\ requests = <<>>
         /\ client = "none"

C29_Witness ==
    /\ InvalidStatuteArgument
    /\ Invoked("get_public_laws_by_congress")
    /\ Args.law_type = "bogus"
    /\ ~Truthy(API_KEY)
    /\ Raised
    /\ outcome[1].exc.msg = "GOVINFO_API_KEY not found in environment variables"
    /\ requests = <<>>

\* the positions of the upstream results that carry one of the four codes
StatutePositions ==
    {i \in 1..Len(UpstreamData.results) :
        /\ "collectionCode" \in DOMAIN UpstreamData.results[i]
        /\ UpstreamData.results[i].collectionCode \in FourStatuteCodes}

\* the j-th smallest of the statute positions
StatutePosition(j) ==
    CHOOSE i \in StatutePositions : Cardinality({k \in StatutePositions : k <= i}) = j

\* C30: when search_statutes returns a decoded 2xx response: without an
\* explicit collection and with a results field, the returned results are
\* the upstream results carrying one of the four statute codes, each once
\* and in upstream order, and every field other than results and count is
\* returned as received; with an explicit collection, or without a results
\* field, the returned value is the upstream response unchanged.
C30_FilterKeepsOrderAndFields ==
    (Invoked("search_statutes") /\ Returned /\ GotJson) =>
        IF Args.collection = "" /\ "results" \in DOMAIN UpstreamData
        THEN /\ DOMAIN ReturnValue = DOMAIN UpstreamData \cup {"count"}
             /\ Len(ReturnValue.results) = Cardinality(StatutePositions)
             /\ \A j \in 1..Len(ReturnValue.results) :
                  ReturnValue.results[j] = UpstreamData.results[StatutePosition(j)]
             /\ \A k \in DOMAIN UpstreamData \ {"results", "count"} :
                  ReturnValue[k] = UpstreamData[k]
        ELSE ReturnValue = UpstreamData

C30_Witness ==
    /\ Invoked("search_statutes")
    /\ Args.collection = "USCODE"
    /\ Returned
    /\ GotJson
    /\ "results" \in DOMAIN UpstreamData
    /\ Len(UpstreamData.results) = 2
    /\ UpstreamData.results[1].packageId = "BILLS-117hr1-ih"
    /\ UpstreamData.results[2].packageId = "GOVPUB-1"
    /\ ReturnValue = UpstreamData
    /\ ReturnValue.count = 7

====
